---- MODULE Spec2Model ----
(***************************************************************************)
(* A model of gpt-5-mcp-server: the gpt5 tool of the full pass-through     *)
(* server (normalizeRequest + requestSchema) and of the minimal MVP server *)
(* (buildRequest + the strict requestSchema), with the tool handler that   *)
(* wraps them around one call of the Responses API.                        *)
(*                                                                         *)
(* JSON values are tagged records: t is the type and the payload sits in   *)
(* the field of that type (s, n, b, a or o).  An object is a function from *)
(* key to value whose DOMAIN is exactly the keys that are present.  Texts  *)
(* that the server composes (error messages, result texts) are sequences   *)
(* of tokens, so that joining and "the text contains" can be computed.     *)
(***************************************************************************)
EXTENDS Integers, Sequences, FiniteSets, TLC

\* ------------------------------------------------------------ JSON values

\* undefined: the value with no payload.
Blank == [t |-> "absent", s |-> "", n |-> 0, b |-> FALSE, a |-> <<>>, o |-> <<>>]

S(s) == [Blank EXCEPT !.t = "str", !.s = s]
B(b) == [Blank EXCEPT !.t = "bool", !.b = b]
N(n) == [Blank EXCEPT !.t = "num", !.n = n]
A(a) == [Blank EXCEPT !.t = "arr", !.a = a]
O(o) == [Blank EXCEPT !.t = "obj", !.o = o]
\* A text: a string held as its sequence of tokens.
T(toks) == [Blank EXCEPT !.t = "text", !.a = toks]

\* Marks a key that is left out when an argument object is assembled.
Absent == Blank

IsStr(x) == x.t = "str"
IsText(x) == x.t = "text"
IsBool(x) == x.t = "bool"
IsNum(x) == x.t = "num"
IsArr(x) == x.t = "arr"
IsObj(x) == x.t = "obj"

EmptyObj == [k \in {} |-> Absent]

Has(o, k) == k \in DOMAIN o

\* The object with the keys marked Absent left out.
Obj(r) == [k \in {x \in DOMAIN r : r[x] # Absent} |-> r[k]]

\* { ...o } without the keys ks (a rest pattern).
Without(o, ks) == [k \in (DOMAIN o) \ ks |-> o[k]]

\* Object.assign(target, src) and the spread { ...target, ...src }.
Assign(target, src) ==
  [k \in (DOMAIN target) \cup (DOMAIN src) |->
      IF k \in DOMAIN src THEN src[k] ELSE target[k]]

Range(s) == {s[i] : i \in DOMAIN s}

\* JavaScript truthiness of a value (an absent key reads as undefined).
Truthy(x) ==
  CASE x.t = "absent" -> FALSE
    [] x.t = "null" -> FALSE
    [] x.t = "bool" -> x.b
    [] x.t = "num" -> x.n # 0
    [] x.t = "str" -> x.s # ""
    [] x.t = "text" -> Len(x.a) > 0
    [] OTHER -> TRUE

\* o[k], reading undefined when the key is missing.
Get(o, k) == IF k \in DOMAIN o THEN o[k] ELSE Absent

Null == [Blank EXCEPT !.t = "null"]

\* ------------------------------------------------------------------ texts

\* Array.prototype.join: the texts of ts with sep between neighbours.
RECURSIVE Join(_, _)
Join(ts, sep) ==
  IF Len(ts) = 0 THEN <<>>
  ELSE IF Len(ts) = 1 THEN ts[1]
  ELSE ts[1] \o <<sep>> \o Join(Tail(ts), sep)

\* .filter(Boolean) over texts: the empty text is falsy.
NonEmpty(ts) == SelectSeq(ts, LAMBDA x : Len(x) > 0)

\* The tokens of the words ws.
Words(ws) == [i \in DOMAIN ws |-> S(ws[i])]

\* The text contains the word.
Mentions(text, w) == S(w) \in Range(text)

\* JSON.stringify(x, null, 2): one token that stands for the dump of x.
Dump(x) == [Blank EXCEPT !.t = "json", !.a = <<x>>]

\* --------------------------------------- requestSchema (full pass-through)

ReasoningEfforts == {"minimal", "low", "medium", "high"}
Verbosities == {"low", "medium", "high"}
ToolShorthands == {"web_search", "web_search_preview", "file_search"}
ApprovalModes == {"never", "auto", "manual"}

IsEnum(x, E) == IsStr(x) /\ x.s \in E
IsStrArr(x) == IsArr(x) /\ \A i \in DOMAIN x.a : IsStr(x.a[i])
IsObjArr(x) == IsArr(x) /\ \A i \in DOMAIN x.a : IsObj(x.a[i])

\* No tool by default.
DefaultToolsNone == A(<<>>)

DefaultTools == A(<<O([type |-> S("web_search_preview")])>>)

\* One element of requestArgs.tools: the z.union of the shorthand enum and
\* the four tool-declaration objects.
ToolOk(x) ==
  \/ IsEnum(x, ToolShorthands)
  \/ /\ IsObj(x)
     /\ Has(x.o, "type")
     /\ \/ /\ x.o["type"] = S("function")
           /\ Has(x.o, "name") /\ IsStr(x.o["name"])
           /\ (Has(x.o, "description") => IsStr(x.o["description"]))
           /\ (Has(x.o, "parameters") => IsObj(x.o["parameters"]))
           /\ (Has(x.o, "strict") => IsBool(x.o["strict"]))
        \/ x.o["type"] = S("web_search_preview")
        \/ /\ x.o["type"] = S("file_search")
           /\ (Has(x.o, "vector_store_ids") => IsStrArr(x.o["vector_store_ids"]))
        \/ /\ x.o["type"] = S("mcp")
           /\ Has(x.o, "server_label") /\ IsStr(x.o["server_label"])
           /\ Has(x.o, "server_url") /\ IsStr(x.o["server_url"])
           /\ (Has(x.o, "require_approval") => IsEnum(x.o["require_approval"], ApprovalModes))

\* The declared keys of requestArgs, in declaration order.
RequestArgKeys ==
  <<"model", "input", "messages", "prompt", "instructions", "temperature",
    "top_p", "max_output_tokens", "max_tokens", "stop", "frequency_penalty",
    "presence_penalty", "verbosity", "reasoning", "reasoning_effort", "tools",
    "tool_choice", "parallel_tool_calls", "response_format", "logprobs",
    "top_logprobs", "seed", "user", "metadata", "stream", "extra">>

\* The value constraint requestArgs declares for key k.
FieldOk(k, x) ==
  CASE k = "model" -> IsStr(x)
    [] k = "input" ->
         \/ IsStr(x)
         \/ IsArr(x) /\ \A i \in DOMAIN x.a : IsStr(x.a[i]) \/ IsObj(x.a[i])
         \/ IsObj(x)
    [] k = "messages" -> IsObjArr(x)
    [] k = "prompt" -> IsStr(x)
    [] k = "instructions" -> IsStr(x) \/ IsStrArr(x) \/ IsObj(x) \/ IsObjArr(x)
    [] k = "temperature" -> IsNum(x) /\ x.n >= 0 /\ x.n <= 2
    [] k = "top_p" -> IsNum(x) /\ x.n >= 0 /\ x.n <= 1
    [] k = "max_output_tokens" -> IsNum(x) /\ x.n > 0
    [] k = "max_tokens" -> IsNum(x) /\ x.n > 0
    [] k = "stop" -> IsStr(x) \/ IsStrArr(x)
    [] k = "frequency_penalty" -> IsNum(x)
    [] k = "presence_penalty" -> IsNum(x)
    [] k = "verbosity" -> IsEnum(x, Verbosities)
    [] k = "reasoning" ->
         IsObj(x) /\ (Has(x.o, "effort") => IsEnum(x.o["effort"], ReasoningEfforts))
    [] k = "reasoning_effort" -> IsEnum(x, ReasoningEfforts)
    [] k = "tools" -> IsArr(x) /\ \A i \in DOMAIN x.a : ToolOk(x.a[i])
    [] k = "tool_choice" -> IsEnum(x, {"none", "auto"}) \/ IsObj(x)
    [] k = "parallel_tool_calls" -> IsBool(x)
    [] k = "response_format" -> IsObj(x)
    [] k = "logprobs" -> IsBool(x)
    [] k = "top_logprobs" -> IsNum(x)
    [] k = "seed" -> IsNum(x)
    [] k = "user" -> IsStr(x)
    [] k = "metadata" -> IsObj(x)
    [] k = "stream" -> IsBool(x)
    [] k = "extra" -> IsObj(x)
    [] OTHER -> TRUE

\* The value zod returns for a valid key: z.object({effort}) is not a
\* passthrough object, so the other keys of `reasoning` are stripped.
FieldOut(k, x) ==
  IF k = "reasoning" THEN O([e \in (DOMAIN x.o) \cap {"effort"} |-> x.o[e]])
  ELSE x

\* The issues of a ZodError as one text: per failing key, in declaration
\* order, the issue code and the path.
IssueText(a, keys) ==
  LET bad == SelectSeq(keys, LAMBDA k : Has(a, k) /\ ~FieldOk(k, a[k]))
  IN Join([i \in DOMAIN bad |-> Words(<<"invalid", bad[i]>>)], S(","))

\* requestSchema.parse without .passthrough(): the keys that requestArgs does
\* not declare are stripped.
RequestSchemaParseStrip(a) ==
  IF \E k \in DOMAIN a : ~FieldOk(k, a[k])
  THEN [ok |-> FALSE,
        err |-> O([name |-> S("ZodError"),
                   message |-> T(IssueText(a, RequestArgKeys))])]
  ELSE [ok |-> TRUE,
        value |-> Assign([model |-> S("gpt-5"), tools |-> DefaultTools],
                         [k \in (DOMAIN a) \cap Range(RequestArgKeys) |->
                            FieldOut(k, a[k])])]

\* requestSchema.parse(args) for z.object(requestArgs).passthrough(): every
\* declared key that is present must satisfy its constraint, unknown keys are
\* kept, and the declared defaults (model, tools) are filled in.
RequestSchemaParse(a) ==
  IF \E k \in DOMAIN a : ~FieldOk(k, a[k])
  THEN [ok |-> FALSE,
        err |-> O([name |-> S("ZodError"),
                   message |-> T(IssueText(a, RequestArgKeys))])]
  ELSE [ok |-> TRUE,
        value |-> Assign([model |-> S("gpt-5"), tools |-> DefaultTools],
                         [k \in DOMAIN a |-> FieldOut(k, a[k])])]

\* ------------------------------------------------------- normalizeRequest

\* String.prototype.trim().toLowerCase() on the tool spellings of the model.
TrimLower(s) ==
  CASE s = " Web_Search " -> "web_search"
    [] s = "WEB_SEARCH_PREVIEW" -> "web_search_preview"
    [] s = "File_Search" -> "file_search"
    [] s = " Code_Interpreter" -> "code_interpreter"
    [] OTHER -> s

\* normalizeTool without the rewrite of the web_search spelling.
normalizeToolKeepSpelling(x) ==
  IF IsStr(x) THEN O([type |-> S(TrimLower(x.s))]) ELSE x

normalizeTool(x) ==
  IF IsStr(x)
  THEN LET key == TrimLower(x.s)
       IN IF key \in {"web_search", "web_search_preview"}
          THEN O([type |-> S("web_search_preview")])
          ELSE IF key = "file_search" THEN O([type |-> S("file_search")])
          ELSE O([type |-> S(key)])
  ELSE IF IsObj(x) /\ Get(x.o, "type") = S("web_search")
  THEN O(Assign(x.o, [type |-> S("web_search_preview")]))
  ELSE x

\* body.tools after the tools step: mapped when an array, the default when
\* null or undefined, left alone otherwise.
NormalizeTools(b) ==
  LET tl == Get(b, "tools")
  IN IF IsArr(tl) THEN Assign(b, [tools |-> A([i \in DOMAIN tl.a |-> normalizeTool(tl.a[i])])])
     ELSE IF tl.t \in {"absent", "null"} THEN Assign(b, [tools |-> DefaultTools])
     ELSE b

\* new Error("messages が空です。prompt か input を指定してください。")
EmptyMessagesError ==
  O([name |-> S("Error"),
     message |-> T(Words(<<"messages", "is-empty.", "specify", "prompt", "or",
                           "input">>))])

\* new Error("input / messages / prompt のいずれかを指定してください。")
NoInputError ==
  O([name |-> S("Error"),
     message |-> T(Words(<<"input", "/", "messages", "/", "prompt", "specify-one">>))])

\* ResolveInput as the first server version had it: any `messages`, empty or
\* not, is forwarded as the input.
ResolveInputAnyMessages(p) ==
  LET input == Get(p, "input")
      messages == Get(p, "messages")
      prompt == Get(p, "prompt")
  IN IF input # Absent THEN [ok |-> TRUE, value |-> input]
     ELSE IF messages # Absent THEN [ok |-> TRUE, value |-> messages]
     ELSE IF prompt # Absent THEN [ok |-> TRUE, value |-> prompt]
     ELSE [ok |-> FALSE, err |-> NoInputError]

\* ResolveInput with `prompt` tried before `messages`.
ResolveInputPromptFirst(p) ==
  LET input == Get(p, "input")
      messages == Get(p, "messages")
      prompt == Get(p, "prompt")
  IN IF input # Absent THEN [ok |-> TRUE, value |-> input]
     ELSE IF prompt # Absent THEN [ok |-> TRUE, value |-> prompt]
     ELSE IF IsArr(messages) /\ Len(messages.a) > 0
     THEN [ok |-> TRUE, value |-> messages]
     ELSE IF messages # Absent /\ IsArr(messages) /\ Len(messages.a) = 0
     THEN [ok |-> FALSE, err |-> EmptyMessagesError]
     ELSE [ok |-> FALSE, err |-> NoInputError]

\* ResolveInput with the last branch forwarding the missing input instead of
\* throwing.
ResolveInputNoThrow(p) ==
  LET input == Get(p, "input")
      messages == Get(p, "messages")
      prompt == Get(p, "prompt")
  IN IF input # Absent THEN [ok |-> TRUE, value |-> input]
     ELSE IF IsArr(messages) /\ Len(messages.a) > 0
     THEN [ok |-> TRUE, value |-> messages]
     ELSE IF prompt # Absent THEN [ok |-> TRUE, value |-> prompt]
     ELSE IF messages # Absent /\ IsArr(messages) /\ Len(messages.a) = 0
     THEN [ok |-> FALSE, err |-> EmptyMessagesError]
     ELSE [ok |-> TRUE, value |-> Null]

\* The unification of input / messages / prompt: the value for body.input,
\* or the error that is thrown.
ResolveInput(p) ==
  LET input == Get(p, "input")
      messages == Get(p, "messages")
      prompt == Get(p, "prompt")
  IN IF input # Absent THEN [ok |-> TRUE, value |-> input]
     ELSE IF IsArr(messages) /\ Len(messages.a) > 0
     THEN [ok |-> TRUE, value |-> messages]
     ELSE IF prompt # Absent THEN [ok |-> TRUE, value |-> prompt]
     ELSE IF messages # Absent /\ IsArr(messages) /\ Len(messages.a) = 0
     THEN [ok |-> FALSE, err |-> EmptyMessagesError]
     ELSE [ok |-> FALSE, err |-> NoInputError]

\* ApplyAliases with the alias overriding an explicit max_output_tokens.
ApplyAliasesAliasWins(b, p) ==
  LET b1 == IF IsNum(Get(p, "max_tokens"))
            THEN Assign(b, [max_output_tokens |-> p["max_tokens"]])
            ELSE b
  IN IF ~Truthy(Get(b1, "reasoning")) /\ Truthy(Get(p, "reasoning_effort"))
     THEN Assign(b1, [reasoning |-> O([effort |-> p["reasoning_effort"]])])
     ELSE b1

\* ApplyAliases with reasoning_effort replacing a given reasoning object.
ApplyAliasesEffortWins(b, p) ==
  LET b1 == IF Get(b, "max_output_tokens").t \in {"absent", "null"}
                /\ IsNum(Get(p, "max_tokens"))
            THEN Assign(b, [max_output_tokens |-> p["max_tokens"]])
            ELSE b
  IN IF Truthy(Get(p, "reasoning_effort"))
     THEN Assign(b1, [reasoning |-> O([effort |-> p["reasoning_effort"]])])
     ELSE b1

\* The compatibility aliases max_tokens and reasoning_effort.
ApplyAliases(b, p) ==
  LET b1 == IF Get(b, "max_output_tokens").t \in {"absent", "null"}
                /\ IsNum(Get(p, "max_tokens"))
            THEN Assign(b, [max_output_tokens |-> p["max_tokens"]])
            ELSE b
  IN IF ~Truthy(Get(b1, "reasoning")) /\ Truthy(Get(p, "reasoning_effort"))
     THEN Assign(b1, [reasoning |-> O([effort |-> p["reasoning_effort"]])])
     ELSE b1

\* DisableStream writing stream: false whether or not stream was requested.
DisableStreamAlways(b, p) == Assign(b, [stream |-> B(FALSE)])

\* if (stream) body.stream = false
DisableStream(b, p) ==
  IF Truthy(Get(p, "stream")) THEN Assign(b, [stream |-> B(FALSE)]) ELSE b

\* { ...x } of an array: its elements under their indices.
ArrFields(a) ==
  [k \in {ToString(i - 1) : i \in DOMAIN a} |->
      a[CHOOSE i \in DOMAIN a : ToString(i - 1) = k]]

\* The own enumerable properties of a value of typeof "object".
Fields(x) == IF IsObj(x) THEN x.o ELSE IF IsArr(x) THEN ArrFields(x.a) ELSE EmptyObj

\* MergeExtra with the body winning: extra only fills in the missing keys.
MergeExtraBodyWins(b, p) ==
  LET extra == Get(p, "extra")
  IN IF IsObj(extra) \/ IsArr(extra) THEN Assign(Fields(extra), b) ELSE b

\* if (extra && typeof extra === "object") Object.assign(body, extra)
MergeExtra(b, p) ==
  LET extra == Get(p, "extra")
  IN IF IsObj(extra) \/ IsArr(extra) THEN Assign(b, Fields(extra)) ELSE b

\* body.text when it is truthy and typeof "object" (an array counts), else {}.
TextOf(b) == Fields(Get(b, "text"))

moveVerbosityReplacingText(b) ==
  LET v == Get(b, "verbosity")
  IN IF ~Truthy(v) THEN b
     ELSE Assign(Without(b, {"verbosity"}), [text |-> O([verbosity |-> v])])

moveVerbosityToText(b) ==
  LET v == Get(b, "verbosity")
  IN IF ~Truthy(v) THEN b
     ELSE Assign(Without(b, {"verbosity"}),
                 [text |-> O(Assign(TextOf(b), [verbosity |-> v]))])

\* The migration of the legacy response_format into text.format.
MigrateResponseFormat(b, p) ==
  LET rf == Get(p, "response_format")
      setTextFormat == Assign(b, [text |-> O(Assign(TextOf(b), [format |-> S("json")]))])
  IN IF rf = Absent THEN b
     ELSE IF IsStr(rf) THEN (IF rf = S("json") THEN setTextFormat ELSE b)
     ELSE IF IsObj(rf)
     THEN LET ty == Get(rf.o, "type")
              tag == IF ty.t \in {"absent", "null"} THEN Get(rf.o, "format") ELSE ty
          IN IF tag \in {S("json"), S("json_object")} THEN setTextFormat
             ELSE IF tag = S("json_schema")
             THEN Assign(setTextFormat, [response_format_original |-> rf])
             ELSE b
     ELSE b

\* The keys normalizeRequest takes out of the parsed arguments before the
\* rest is spread into the body.
Destructured ==
  {"model", "input", "messages", "prompt", "max_tokens", "reasoning_effort",
   "response_format", "extra", "stream"}

\* normalizeRequest(args): [ok |-> TRUE, body] or [ok |-> FALSE, err], err
\* being the error it throws.
normalizeRequest(a) ==
  LET parsed == RequestSchemaParse(a)
  IN IF ~parsed.ok THEN [ok |-> FALSE, err |-> parsed.err]
     ELSE
       LET p == parsed.value
           model == Get(p, "model")
           b0 == Assign([model |-> IF model.t \in {"absent", "null"}
                                   THEN S("gpt-5") ELSE model],
                        Without(p, Destructured))
           b1 == NormalizeTools(b0)
           res == ResolveInput(p)
       IN IF ~res.ok THEN [ok |-> FALSE, err |-> res.err]
          ELSE
            LET b2 == Assign(b1, [input |-> res.value])
                b3 == ApplyAliases(b2, p)
                b4 == DisableStream(b3, p)
                b5 == MergeExtra(b4, p)
                b6 == moveVerbosityToText(b5)
            IN [ok |-> TRUE, body |-> MigrateResponseFormat(b6, p)]

\* ------------------------------------------- the MVP schema and buildRequest

MvpModels == {"gpt-5", "gpt-5-mini", "gpt-5-nano"}

MvpKeys == <<"model", "input", "reasoning_effort", "web_search">>

\* A key whose value has the wrong type for the MVP requestArgs (or the
\* required input missing): zod aborts the object on these.
MvpTypeIssue(a, k) ==
  CASE k = "model" -> Has(a, k) /\ ~IsEnum(a[k], MvpModels)
    [] k = "input" -> ~Has(a, k) \/ ~IsStr(a[k])
    [] k = "reasoning_effort" -> Has(a, k) /\ ~IsEnum(a[k], ReasoningEfforts)
    [] k = "web_search" -> Has(a, k) /\ ~IsBool(a[k])
    [] OTHER -> FALSE

\* The arguments with the declared defaults filled in.
MvpDefaults(a) ==
  Assign([model |-> S("gpt-5"), reasoning_effort |-> S("medium"),
          web_search |-> B(TRUE)], a)

\* The issue superRefine adds: path ["web_search"], with the message
\* 'reasoning_effort が "minimal" の場合、web_search は利用できません（…）'.
MinimalWebSearchIssue ==
  Words(<<"custom", "web_search", "reasoning_effort", "is", "minimal", ":",
          "web_search", "cannot-be-used">>)

\* The superRefine rule of the MVP requestSchema, on the defaulted value.
RefineIssues(val) ==
  LET effort == Get(val, "reasoning_effort")
      ws == IF Get(val, "web_search").t \in {"absent", "null"}
            THEN B(TRUE) ELSE val["web_search"]
  IN IF effort = S("minimal") /\ Truthy(ws) THEN <<MinimalWebSearchIssue>> ELSE <<>>

\* The MVP schema before superRefine was added to it.
MvpIssuesNoRefine(a) ==
  LET typed == SelectSeq(MvpKeys, LAMBDA k : MvpTypeIssue(a, k))
      unknown == (DOMAIN a) \ Range(MvpKeys)
  IN IF Len(typed) > 0 THEN [i \in DOMAIN typed |-> Words(<<"invalid", typed[i]>>)]
     ELSE (IF a["input"] = S("") THEN <<Words(<<"too_small", "input">>)>> ELSE <<>>)
          \o (IF unknown # {} THEN <<Words(<<"unrecognized_keys">>)>> ELSE <<>>)

\* The MVP schema without .strict(): undeclared keys are stripped silently.
MvpIssuesNotStrict(a) ==
  LET typed == SelectSeq(MvpKeys, LAMBDA k : MvpTypeIssue(a, k))
  IN IF Len(typed) > 0 THEN [i \in DOMAIN typed |-> Words(<<"invalid", typed[i]>>)]
     ELSE (IF a["input"] = S("") THEN <<Words(<<"too_small", "input">>)>> ELSE <<>>)
          \o RefineIssues(MvpDefaults(a))

\* The issues of z.object(requestArgs).strict().superRefine(...) for a: the
\* type issues abort the parse; otherwise the too-short input, the unknown
\* keys and the cross-field rule are all reported.
MvpIssues(a) ==
  LET typed == SelectSeq(MvpKeys, LAMBDA k : MvpTypeIssue(a, k))
      unknown == (DOMAIN a) \ Range(MvpKeys)
  IN IF Len(typed) > 0 THEN [i \in DOMAIN typed |-> Words(<<"invalid", typed[i]>>)]
     ELSE (IF a["input"] = S("") THEN <<Words(<<"too_small", "input">>)>> ELSE <<>>)
          \o (IF unknown # {} THEN <<Words(<<"unrecognized_keys">>)>> ELSE <<>>)
          \o RefineIssues(MvpDefaults(a))

\* requestSchema.parse(args) of the MVP.
MvpSchemaParse(a) ==
  IF Len(MvpIssues(a)) > 0
  THEN [ok |-> FALSE,
        err |-> O([name |-> S("ZodError"),
                   message |-> T(Join(MvpIssues(a), S(",")))])]
  ELSE [ok |-> TRUE, value |-> MvpDefaults(a)]

\* buildRequest attaching the web search tool whatever web_search says.
buildRequestAlwaysWeb(a) ==
  LET parsed == MvpSchemaParse(a)
  IN IF ~parsed.ok THEN [ok |-> FALSE, err |-> parsed.err]
     ELSE
       LET p == parsed.value
           model == Get(p, "model")
           effort == Get(p, "reasoning_effort")
           b1 == [model |-> IF model.t \in {"absent", "null"} THEN S("gpt-5") ELSE model,
                  input |-> p["input"],
                  tools |-> A(<<O([type |-> S("web_search_preview")])>>)]
       IN [ok |-> TRUE,
           body |-> IF Truthy(effort)
                    THEN Assign(b1, [reasoning |-> O([effort |-> effort])])
                    ELSE b1]

\* buildRequest(args): [ok |-> TRUE, body] or [ok |-> FALSE, err].
buildRequest(a) ==
  LET parsed == MvpSchemaParse(a)
  IN IF ~parsed.ok THEN [ok |-> FALSE, err |-> parsed.err]
     ELSE
       LET p == parsed.value
           model == Get(p, "model")
           ws == Get(p, "web_search")
           effort == Get(p, "reasoning_effort")
           b0 == [model |-> IF model.t \in {"absent", "null"} THEN S("gpt-5") ELSE model,
                  input |-> p["input"]]
           useWeb == IF ws.t \in {"absent", "null"} THEN B(TRUE) ELSE ws
           b1 == IF Truthy(useWeb)
                 THEN Assign(b0, [tools |-> A(<<O([type |-> S("web_search_preview")])>>)])
                 ELSE b0
       IN [ok |-> TRUE,
           body |-> IF Truthy(effort)
                    THEN Assign(b1, [reasoning |-> O([effort |-> effort])])
                    ELSE b1]

\* ------------------------------------------------------- the gpt5 handler

\* x.k of any value: undefined unless x is an object (or array) that has k.
PropOf(x, k) == Get(Fields(x), k)

\* a ?? b
Coalesce(a, b) == IF a.t \in {"absent", "null"} THEN b ELSE a

\* typeof x === "string"
IsString(x) == IsStr(x) \/ IsText(x)

\* The tokens a value contributes to a joined text; a falsy value (the empty
\* string, undefined) contributes none.
Tokens(x) == IF IsText(x) THEN x.a ELSE IF Truthy(x) THEN <<x>> ELSE <<>>

\* `"text" in c` throws a TypeError when c is a primitive.
PartThrows(c) == ~(IsObj(c) \/ IsArr(c))

\* "text" in c && typeof c.text === "string" ? c.text : ""
PartText(c) ==
  IF Has(Fields(c), "text") /\ IsString(PropOf(c, "text"))
  THEN Tokens(PropOf(c, "text")) ELSE <<>>

\* Reading o.content throws when o is null or undefined; so does a part that
\* is a primitive.
ItemThrows(o) ==
  \/ o.t \in {"absent", "null"}
  \/ /\ IsArr(PropOf(o, "content"))
     /\ \E i \in DOMAIN PropOf(o, "content").a : PartThrows(PropOf(o, "content").a[i])

ItemText(o) ==
  IF IsArr(PropOf(o, "content"))
  THEN LET parts == PropOf(o, "content").a
       IN Join(NonEmpty([i \in DOMAIN parts |-> PartText(parts[i])]), S("\n"))
  ELSE <<>>

ExtractTypeError ==
  O([name |-> S("TypeError"), message |-> T(Words(<<"TypeError">>))])

\* ExtractText with the output items tried before output_text.
ExtractTextOutputFirst(resp) ==
  IF resp.t \in {"absent", "null"} THEN [ok |-> FALSE, err |-> ExtractTypeError]
  ELSE IF Truthy(PropOf(resp, "output")) /\ IsArr(PropOf(resp, "output"))
  THEN LET out == PropOf(resp, "output").a
       IN IF \E i \in DOMAIN out : ItemThrows(out[i])
          THEN [ok |-> FALSE, err |-> ExtractTypeError]
          ELSE [ok |-> TRUE, text |-> T(Join(NonEmpty([i \in DOMAIN out |-> ItemText(out[i])]), S("\n")))]
  ELSE IF IsString(PropOf(resp, "output_text"))
  THEN [ok |-> TRUE, text |-> T(Tokens(PropOf(resp, "output_text")))]
  ELSE [ok |-> TRUE, text |-> T(<<Dump(resp)>>)]

\* The text the handler takes from the API response: output_text, else the
\* texts of output[].content[], else the JSON dump; or the TypeError thrown
\* on the way.
ExtractText(resp) ==
  IF resp.t \in {"absent", "null"} THEN [ok |-> FALSE, err |-> ExtractTypeError]
  ELSE IF IsString(PropOf(resp, "output_text"))
  THEN [ok |-> TRUE, text |-> T(Tokens(PropOf(resp, "output_text")))]
  ELSE IF Truthy(PropOf(resp, "output")) /\ IsArr(PropOf(resp, "output"))
  THEN LET out == PropOf(resp, "output").a
       IN IF \E i \in DOMAIN out : ItemThrows(out[i])
          THEN [ok |-> FALSE, err |-> ExtractTypeError]
          ELSE [ok |-> TRUE, text |-> T(Join(NonEmpty([i \in DOMAIN out |-> ItemText(out[i])]), S("\n")))]
  ELSE [ok |-> TRUE, text |-> T(<<Dump(resp)>>)]

\* SuccessResult with the error flag set as well.
SuccessResultFlagged(text) ==
  [content |-> <<[type |-> "text", text |-> text]>>, isError |-> TRUE]

\* { content: [{ type: "text", text }] }
SuccessResult(text) == [content |-> <<[type |-> "text", text |-> text]>>]

\* String(err)
StringOf(err) == IF IsString(err) THEN err ELSE T(<<[Blank EXCEPT !.t = "String", !.a = <<err>>]>>)

\* `(label ${x})`, or "" when x is falsy.
Paren(label, x) == IF Truthy(x) THEN <<S(label), x, S(")")>> ELSE <<>>

\* ErrorResult with the nested response data taking precedence over the
\* properties of the error itself.
ErrorResultNestedFirst(err) ==
  LET message == Coalesce(PropOf(err, "message"), StringOf(err))
      response == PropOf(err, "response")
      data == PropOf(response, "data")
      status == Coalesce(PropOf(response, "status"), PropOf(err, "status"))
      code == Coalesce(PropOf(PropOf(data, "error"), "code"), PropOf(err, "code"))
      param == Coalesce(PropOf(PropOf(data, "error"), "param"), PropOf(err, "param"))
      details == IF Truthy(data) THEN <<S("\nDetails:"), Dump(data)>> ELSE <<>>
      composed == <<S("Error:")>> \o Tokens(message) \o Paren("(status", status)
                    \o Paren("(code", code) \o Paren("(param", param)
  IN [content |-> <<[type |-> "text", text |-> T(composed \o details)]>>,
      isError |-> TRUE]

\* The result of the catch block: "Error:", the message and the available
\* status / code / param joined by blanks, then the details blob.
ErrorResult(err) ==
  LET message == Coalesce(PropOf(err, "message"), StringOf(err))
      response == PropOf(err, "response")
      data == PropOf(response, "data")
      status == Coalesce(PropOf(err, "status"), PropOf(response, "status"))
      code == Coalesce(PropOf(err, "code"), PropOf(PropOf(data, "error"), "code"))
      param == Coalesce(PropOf(err, "param"), PropOf(PropOf(data, "error"), "param"))
      details == IF Truthy(data) THEN <<S("\nDetails:"), Dump(data)>> ELSE <<>>
      composed == <<S("Error:")>> \o Tokens(message) \o Paren("(status", status)
                    \o Paren("(code", code) \o Paren("(param", param)
  IN [content |-> <<[type |-> "text", text |-> T(composed \o details)]>>,
      isError |-> TRUE]

\* --------------------------------------------------- the inputs of the model

\* The longest `messages` list and the longest `tools` list that are tried.
MaxMessages == 2
MaxTools == 2

SeqsUpTo(V, n) == UNION {[1..k -> V] : k \in 0..n}

MessageVals ==
  {O([role |-> S("user"), content |-> S("hi")]),
   O([role |-> S("system"), content |-> S("be brief")])}

\* Tool entries the schema accepts, and some it rejects.
ToolVals ==
  {S("web_search"), S("web_search_preview"), S("file_search"),
   O([type |-> S("function"), name |-> S("get_weather")]),
   O([type |-> S("web_search_preview"), search_context_size |-> S("low")]),
   O([type |-> S("file_search"), vector_store_ids |-> A(<<S("vs_1")>>)]),
   S(" Web_Search "),
   S("code_interpreter"),
   O([type |-> S("web_search"), search_context_size |-> S("low")])}

\* Values of `extra`: the escape hatch may carry any key.
ExtraVals ==
  {Absent, O(EmptyObj),
   O([store |-> B(TRUE)]),
   O([stream |-> B(TRUE)]),
   O([stream |-> B(FALSE)]),
   O([tools |-> A(<<S("web_search")>>)]),
   O([tools |-> A(<<O([type |-> S("web_search")])>>)]),
   O([tools |-> Null]),
   O([input |-> S("from extra")]),
   O([prompt |-> S("from extra")]),
   O([messages |-> A(<<>>)]),
   O([max_tokens |-> N(5)]),
   O([max_output_tokens |-> N(7)]),
   O([reasoning_effort |-> S("high")]),
   O([response_format |-> O([type |-> S("json_object")])]),
   O([verbosity |-> S("low")]),
   O([verbosity |-> S("")]),
   O([extra |-> O([store |-> B(TRUE)])]),
   O([text |-> O([format |-> S("plain")])]),
   O([response_format_original |-> S("mine")]),
   S("not an object")}

InputVals ==
  {Absent, S("Summarize X"), S(""), A(<<S("part"), O([type |-> S("input_text")])>>),
   O([type |-> S("input_text")]), N(5)}

MessagesVals ==
  {Absent, S("not an array")} \cup {A(m) : m \in SeqsUpTo(MessageVals, MaxMessages)}

PromptVals == {Absent, S("p"), S("")}

ToolsVals == {Absent} \cup {A(tl) : tl \in SeqsUpTo(ToolVals, MaxTools)}

\* Argument sets for normalizeRequest: the primary-content fields, the token
\* limits and the tools, each family with `stream` and `extra` around it.
ContentArgs ==
  {Obj([input |-> i, messages |-> m, prompt |-> p, stream |-> st, extra |-> e]) :
     i \in InputVals, m \in MessagesVals, p \in PromptVals,
     st \in {Absent, B(TRUE), B(FALSE)}, e \in ExtraVals}

TokenArgs ==
  {Obj([input |-> i, max_tokens |-> mt, max_output_tokens |-> mo,
        model |-> md, verbosity |-> vb, reasoning |-> rs, extra |-> e]) :
     i \in {Absent, S("Summarize X")},
     mt \in {Absent, N(10), N(0)}, mo \in {Absent, N(20)},
     md \in {Absent, S("gpt-5-mini")}, vb \in {Absent, S("high")},
     rs \in {Absent, O([effort |-> S("low")]),
             O([effort |-> S("high"), summary |-> S("auto")])},
     e \in ExtraVals}

ToolArgs ==
  {Obj([prompt |-> p, tools |-> tl, stream |-> st, extra |-> e]) :
     p \in {Absent, S("p")}, tl \in ToolsVals, st \in {Absent, B(TRUE)},
     e \in ExtraVals}

\* The legacy response_format and verbosity next to a `text` of the caller.
ResponseFormatVals ==
  {Absent, O([type |-> S("json_object")]), O([type |-> S("json")]),
   O([format |-> S("json")]), O([type |-> Null, format |-> S("json")]),
   O([type |-> S("json_schema"), json_schema |-> O([name |-> S("person")])]),
   O([type |-> S("xml")]), O(EmptyObj), S("json"), S("xml")}

FormatArgs ==
  {Obj([input |-> S("Summarize X"), response_format |-> rf, verbosity |-> vb,
        text |-> tx, extra |-> e]) :
     rf \in ResponseFormatVals, vb \in {Absent, S("low"), S("loud")},
     tx \in {Absent, O([format |-> S("plain")]), S("plain")}, e \in ExtraVals}

\* Fields the normalizer has no step for: declared ones and ones the schema
\* does not know, next to an `extra` that may carry the same keys.
PassArgs ==
  {Assign(Obj([input |-> S("Summarize X"), temperature |-> tp, tool_choice |-> tc,
               metadata |-> md, stop |-> sp, instructions |-> ins, store |-> st,
               extra |-> e]), o) :
     tp \in {Absent, N(1), N(5)},
     tc \in {Absent, S("auto"), O([type |-> S("function"), name |-> S("get_weather")])},
     md \in {Absent, O([team |-> S("search")])},
     sp \in {Absent, A(<<S("END")>>)},
     ins \in {Absent, S("be brief")},
     st \in {Absent, B(FALSE)},
     e \in {Absent, O([temperature |-> N(2)]), O([store |-> B(TRUE)]),
            O([include |-> A(<<S("citations")>>)])},
     o \in {EmptyObj, [user |-> S("u1"), seed |-> N(7), top_p |-> N(1),
                       include |-> A(<<S("sources")>>)]}}

\* A reasoning object next to the reasoning_effort alias.
ReasoningArgs ==
  {Obj([input |-> S("Summarize X"), reasoning_effort |-> re, reasoning |-> rs,
        extra |-> e]) :
     re \in {Absent, S("low"), S("minimal")},
     rs \in {Absent, O(EmptyObj), O([effort |-> S("high")]),
             O([effort |-> S("high"), summary |-> S("auto")])},
     e \in {Absent, O([reasoning_effort |-> S("high")]),
            O([reasoning |-> O([effort |-> S("minimal"), summary |-> S("auto")])])}}

NormArgs ==
  ContentArgs \cup TokenArgs \cup ToolArgs \cup FormatArgs \cup PassArgs
    \cup ReasoningArgs

\* Argument sets for the gpt5 tool of the full server.
CallArgs ==
  {Obj([model |-> md, input |-> i, messages |-> m, prompt |-> p, stream |-> st,
        temperature |-> tp, extra |-> e]) :
     md \in {Absent, S("gpt-5")},
     i \in {Absent, S("Summarize X")},
     m \in {Absent, A(<<>>), A(<<O([role |-> S("user"), content |-> S("hi")])>>)},
     p \in {Absent, S("p")},
     st \in {Absent, B(TRUE)},
     tp \in {Absent, N(1), N(5)},
     e \in {Absent, O([stream |-> B(TRUE)]), O([tools |-> A(<<S("web_search")>>)])}}
    \cup ReasoningArgs

\* Fields the MVP requestArgs does not declare, as a caller may add them.
MvpUndeclared ==
  {EmptyObj, [messages |-> A(<<>>)], [tools |-> A(<<S("web_search")>>)],
   [max_tokens |-> N(5)]}

\* Argument sets for the gpt5 tool of the MVP server.
MvpArgs ==
  {Assign(Obj([model |-> md, input |-> i, reasoning_effort |-> ef, web_search |-> ws]),
          u) :
     md \in {Absent, S("gpt-5"), S("gpt-5-mini"), S("gpt-5-nano"), S("gpt-4o")},
     i \in {Absent, S(""), S("Summarize X")},
     ef \in {Absent, S("minimal"), S("low"), S("medium"), S("high"), S("max")},
     ws \in {Absent, B(TRUE), B(FALSE), S("yes")},
     u \in MvpUndeclared}

\* What openai.responses.create may resolve to.
ApiResponses ==
  {O([output_text |-> T(Words(<<"hello">>))]),
   O([output_text |-> T(<<>>)]),
   O([output_text |-> T(Words(<<"hello">>)),
      output |-> A(<<O([content |-> A(<<O([text |-> T(Words(<<"other">>))])>>)])>>)]),
   O([output |-> A(<<>>)]),
   O([output |-> A(<<O([content |-> A(<<O([text |-> T(Words(<<"a">>))]),
                                         O([text |-> T(Words(<<"b">>))])>>)])>>)]),
   O([output |-> A(<<O([type |-> S("reasoning")]),
                     O([content |-> A(<<O([type |-> S("refusal")]),
                                         O([text |-> T(Words(<<"a">>))])>>)])>>)]),
   O([output |-> A(<<O([content |-> A(<<S("raw part")>>)])>>)]),
   O([output |-> A(<<Null>>)]),
   O([output_text |-> T(<<>>),
      output |-> A(<<O([content |-> A(<<O([text |-> T(Words(<<"other">>))])>>)])>>)]),
   O([output_text |-> N(5),
      output |-> A(<<O([content |-> A(<<O([text |-> T(Words(<<"a">>))])>>)])>>)]),
   O([output |-> A(<<O([content |-> A(<<O([text |-> T(<<>>)]),
                                         O([text |-> T(Words(<<"a">>))]),
                                         O([text |-> N(1)])>>)]),
                     O([content |-> A(<<>>)]),
                     S("item"),
                     O([content |-> A(<<O([text |-> T(Words(<<"b">>))])>>)])>>)]),
   O([output |-> S("not an array"), id |-> S("resp_2")]),
   O([id |-> S("resp_1")]),
   Null}

\* What openai.responses.create may reject with.
ApiErrors ==
  {O([message |-> T(Words(<<"Bad", "request">>)), status |-> N(400),
      code |-> S("invalid_request_error"), param |-> S("tools")]),
   O([message |-> T(Words(<<"Connection", "error.">>))]),
   O([message |-> T(Words(<<"Request", "failed">>)),
      response |-> O([status |-> N(500),
                      data |-> O([error |-> O([code |-> S("server_error")])])])]),
   O([status |-> N(401)]),
   O([message |-> T(Words(<<"Rate", "limit">>)), status |-> N(429),
      code |-> S("rate_limit_exceeded"),
      response |-> O([status |-> N(500),
                      data |-> O([error |-> O([code |-> S("server_error"),
                                               param |-> S("model")])])])]),
   O([message |-> T(Words(<<"Timeout">>)), status |-> N(0), code |-> Null,
      response |-> O([status |-> N(504),
                      data |-> O([error |-> O([code |-> S("timeout")])])])]),
   S("boom")}

\* ------------------------------------------------------------ loadOpenAIKey

\* [cwd/.env, here/.env, here/../.env]
Candidates == <<"cwd/.env", "here/.env", "here/../.env">>

\* String.prototype.trim on the values the .env files and the environment
\* hold here.
Trim(s) ==
  CASE s = "  " -> ""
    [] s = " sk-cwd " -> "sk-cwd"
    [] s = " sk-here " -> "sk-here"
    [] s = " sk-root " -> "sk-root"
    [] OTHER -> s

\* fs.existsSync(p); a candidate that exists is a file that can be read.
Exists(fs, p) == fs[p] # Absent

\* parsed.OPENAI_API_KEY of dotenv.parse(fs.readFileSync(p))
ParsedKey(fs, p) == PropOf(fs[p], "OPENAI_API_KEY")

\* parsed.OPENAI_API_KEY && parsed.OPENAI_API_KEY.trim() !== ""
HoldsKey(fs, p) ==
  Exists(fs, p) /\ Truthy(ParsedKey(fs, p)) /\ Trim(ParsedKey(fs, p).s) # ""

\* The loop over the candidates from the j-th on, key and source being
\* what they are when it gets there: it stops at the first file with a key.
RECURSIVE KeyFrom(_, _, _, _)
KeyFrom(fs, j, key, source) ==
  IF j > Len(Candidates) THEN [key |-> key, source |-> source]
  ELSE IF HoldsKey(fs, Candidates[j])
  THEN [key |-> S(Trim(ParsedKey(fs, Candidates[j]).s)),
        source |-> ".env:" \o Candidates[j]]
  ELSE KeyFrom(fs, j + 1, key, source)

\* loadOpenAIKey with the environment variable taking precedence over the
\* files.
loadOpenAIKeyEnvFirst(e) ==
  LET found == IF Truthy(e.env) THEN [key |-> e.env, source |-> "env"]
               ELSE KeyFrom(e.fs, 1, e.env, "")
  IN IF ~Truthy(found.key) THEN [key |-> Null, source |-> "not-found"]
     ELSE found

\* loadOpenAIKey in the environment e: env is process.env.OPENAI_API_KEY
\* and fs the parsed contents of the candidate files.
loadOpenAIKey(e) ==
  LET found == KeyFrom(e.fs, 1, e.env, IF Truthy(e.env) THEN "env" ELSE "")
  IN IF ~Truthy(found.key) THEN [key |-> Null, source |-> "not-found"]
     ELSE found

\* loadOpenAIKey has not run.
NotLoaded == [key |-> Absent, source |-> ""]

\* What process.env.OPENAI_API_KEY may be at startup: unset, empty, blank
\* or a key.
EnvVals == {Absent, S(""), S("  "), S("sk-env")}

\* The key a candidate file may hold, padded or not.
KeyAt(p) ==
  CASE p = "cwd/.env" -> {"sk-cwd", " sk-cwd "}
    [] p = "here/.env" -> {"sk-here", " sk-here "}
    [] OTHER -> {"sk-root", " sk-root "}

\* What a candidate may be: missing (Absent), or a file whose parse has no
\* OPENAI_API_KEY, an empty one, a blank one or a key.
FileVals(p) ==
  {Absent, O(EmptyObj), O([OPENAI_API_KEY |-> S("")]), O([OPENAI_API_KEY |-> S("  ")])}
    \cup {O([OPENAI_API_KEY |-> S(k)]) : k \in KeyAt(p)}

Environs ==
  {[env |-> v, fs |-> f] :
     v \in EnvVals,
     f \in {g \in [Range(Candidates) -> UNION {FileVals(p) : p \in Range(Candidates)}] :
              \A p \in Range(Candidates) : g[p] \in FileVals(p)}}

\* The environment the server of the other specifications started in: the
\* key comes from the environment variable.
StartedEnviron ==
  [env |-> S("sk-env"), fs |-> [p \in Range(Candidates) |-> Absent]]

\* ------------------------------------------------------------------ state
\*
\* variant : which server is running, "full" or "mvp".
\* pc      : per invocation of the gpt5 tool, "idle" (not yet called),
\*           "awaiting" (suspended in await openai.responses.create) or "done".
\* args    : the arguments the invocation was called with.
\* body    : the request body it built.
\* reply   : what the API call settled to: kind "none", "resp" or "error".
\* result  : the ToolResults it returned.
\* sent    : the calls of openai.responses.create, in order: the invocation
\*           that made the call and the body it passed.
\* log     : the bodies written with console.error, in order.
\* nArgs, nOut : an argument set and what normalizeRequest makes of it.

VARIABLES variant, pc, args, body, reply, result, sent, log, nArgs, nOut,
          environ, loaded

vars == <<variant, pc, args, body, reply, result, sent, log, nArgs, nOut, environ, loaded>>

NoReply == [kind |-> "none", v |-> Absent]

NotNormalized == [done |-> FALSE, ok |-> FALSE, body |-> EmptyObj, err |-> Absent]

\* The request builder of the running server.
Build(a) == IF variant = "full" THEN normalizeRequest(a) ELSE buildRequest(a)

ArgsOf(v) == IF v = "full" THEN CallArgs ELSE MvpArgs

\* The server has started: loadOpenAIKey ran at module load.
Started ==
  /\ environ = StartedEnviron
  /\ loaded = loadOpenAIKey(StartedEnviron)

InitCalls(slots) ==
  /\ pc = [i \in slots |-> "idle"]
  /\ args = [i \in slots |-> EmptyObj]
  /\ body = [i \in slots |-> EmptyObj]
  /\ reply = [i \in slots |-> NoReply]
  /\ result = [i \in slots |-> <<>>]
  /\ sent = <<>>
  /\ log = <<>>

Init ==
  /\ variant \in {"full", "mvp"}
  /\ InitCalls({1})
  /\ nArgs = EmptyObj
  /\ nOut = NotNormalized
  /\ Started

\* Catch with the recomputed body appended to the text of the result as
\* well as written to the log.
CatchReturningBody(i, a, err) ==
  /\ pc' = [pc EXCEPT ![i] = "done"]
  /\ result' = [result EXCEPT ![i] =
       Append(@, IF Build(a).ok
                 THEN [ErrorResult(err) EXCEPT !.content[1].text.a = @ \o <<Dump(O(Build(a).body))>>]
                 ELSE ErrorResult(err))]
  /\ log' = IF Build(a).ok THEN Append(log, Build(a).body) ELSE log

\* The catch block of the handler: the error result is returned, and the
\* body is recomputed for the log (a failure of that is swallowed).
Catch(i, a, err) ==
  /\ pc' = [pc EXCEPT ![i] = "done"]
  /\ result' = [result EXCEPT ![i] = Append(@, ErrorResult(err))]
  /\ log' = IF Build(a).ok THEN Append(log, Build(a).body) ELSE log

\* The handler is called with a: it builds the body and calls the API, or
\* returns the error result when building the body throws.
Gpt5Call(i, a) ==
  /\ pc[i] = "idle"
  /\ args' = [args EXCEPT ![i] = a]
  /\ IF Build(a).ok
     THEN /\ pc' = [pc EXCEPT ![i] = "awaiting"]
          /\ body' = [body EXCEPT ![i] = Build(a).body]
          /\ sent' = Append(sent, [by |-> i, body |-> Build(a).body])
          /\ UNCHANGED <<result, log>>
     ELSE /\ Catch(i, a, Build(a).err)
          /\ UNCHANGED <<body, sent>>
  /\ UNCHANGED <<variant, reply, nArgs, nOut, environ, loaded>>

\* Gpt5Reply with the reply handed to the invocation that called the API
\* last, as if the pending request were kept in one shared place.
Gpt5ReplyShared(i, resp) ==
  LET j == sent[Len(sent)].by
  IN /\ pc[i] = "awaiting"
     /\ reply' = [reply EXCEPT ![i] = [kind |-> "resp", v |-> resp]]
     /\ pc' = [pc EXCEPT ![i] = "done"]
     /\ result' = [result EXCEPT ![j] =
          Append(@, IF ExtractText(resp).ok THEN SuccessResult(ExtractText(resp).text)
                    ELSE ErrorResult(ExtractText(resp).err))]
     /\ UNCHANGED <<variant, args, body, sent, log, nArgs, nOut, environ, loaded>>

\* The API call resolves with resp: the text is extracted and returned, or
\* the extraction throws into the catch block.
Gpt5Reply(i, resp) ==
  /\ pc[i] = "awaiting"
  /\ reply' = [reply EXCEPT ![i] = [kind |-> "resp", v |-> resp]]
  /\ IF ExtractText(resp).ok
     THEN /\ pc' = [pc EXCEPT ![i] = "done"]
          /\ result' = [result EXCEPT ![i] = Append(@, SuccessResult(ExtractText(resp).text))]
          /\ UNCHANGED log
     ELSE Catch(i, args[i], ExtractText(resp).err)
  /\ UNCHANGED <<variant, args, body, sent, nArgs, nOut, environ, loaded>>

\* Gpt5ApiError with one retry: the call is made again with the same body,
\* and fails again, before the catch block runs.
Gpt5ApiErrorRetry(i, err) ==
  /\ pc[i] = "awaiting"
  /\ reply' = [reply EXCEPT ![i] = [kind |-> "error", v |-> err]]
  /\ sent' = Append(sent, [by |-> i, body |-> body[i]])
  /\ Catch(i, args[i], err)
  /\ UNCHANGED <<variant, args, body, nArgs, nOut, environ, loaded>>

\* The API call rejects with err.
Gpt5ApiError(i, err) ==
  /\ pc[i] = "awaiting"
  /\ reply' = [reply EXCEPT ![i] = [kind |-> "error", v |-> err]]
  /\ Catch(i, args[i], err)
  /\ UNCHANGED <<variant, args, body, sent, nArgs, nOut, environ, loaded>>

Next ==
  \/ \E i \in DOMAIN pc : \E a \in ArgsOf(variant) : Gpt5Call(i, a)
  \/ \E i \in DOMAIN pc : \E resp \in ApiResponses : Gpt5Reply(i, resp)
  \/ \E i \in DOMAIN pc : \E err \in ApiErrors : Gpt5ApiError(i, err)

Spec == Init /\ [][Next]_vars

\* ------------------------------------------------ overlapping invocations

\* The number of gpt5 invocations that may be outstanding at once.
MaxCalls == 2

\* The arguments, replies and failures of the overlapping invocations.
PairArgs(v) ==
  IF v = "full"
  THEN {Obj([model |-> S("gpt-5"), input |-> S("Summarize X")]),
        Obj([prompt |-> S("p"), verbosity |-> S("low")]),
        Obj([messages |-> A(<<>>)])}
  ELSE {Obj([model |-> S("gpt-5"), input |-> S("Summarize X")]),
        Obj([model |-> S("gpt-5-mini"), input |-> S("Summarize X"),
             web_search |-> B(FALSE)]),
        EmptyObj}

PairResponses ==
  {O([output_text |-> T(Words(<<"hello">>))]),
   O([output |-> A(<<O([content |-> A(<<O([text |-> T(Words(<<"a">>))]),
                                         O([text |-> T(Words(<<"b">>))])>>)])>>)]),
   O([output |-> A(<<Null>>)])}

PairErrors ==
  {O([message |-> T(Words(<<"Bad", "request">>)), status |-> N(400),
      code |-> S("invalid_request_error"), param |-> S("tools")]),
   S("boom")}

InitPair ==
  /\ variant \in {"full", "mvp"}
  /\ InitCalls(1..MaxCalls)
  /\ nArgs = EmptyObj
  /\ nOut = NotNormalized
  /\ Started

NextPair ==
  \/ \E i \in DOMAIN pc : \E a \in PairArgs(variant) : Gpt5Call(i, a)
  \/ \E i \in DOMAIN pc : \E resp \in PairResponses : Gpt5Reply(i, resp)
  \/ \E i \in DOMAIN pc : \E err \in PairErrors : Gpt5ApiError(i, err)

SpecPair == InitPair /\ [][NextPair]_vars

\* normalizeRequest on its own, applied to one argument set.
InitNorm ==
  /\ variant = "full"
  /\ InitCalls({})
  /\ nArgs \in NormArgs
  /\ nOut = NotNormalized
  /\ Started

Normalize ==
  /\ ~nOut.done
  /\ nOut' = LET r == normalizeRequest(nArgs)
             IN [done |-> TRUE, ok |-> r.ok,
                 body |-> IF r.ok THEN r.body ELSE EmptyObj,
                 err |-> IF r.ok THEN Absent ELSE r.err]
  /\ UNCHANGED <<variant, pc, args, body, reply, result, sent, log, nArgs, environ, loaded>>

NextNorm == Normalize

SpecNorm == InitNorm /\ [][NextNorm]_vars

\* --------------------------------------------------- the openai_models tool

\* The characters of the model identifiers and prefixes of the model, in
\* segments that every prefix used here is a whole number of.
Chars(s) ==
  CASE s = "" -> <<>>
    [] s = "gpt-" -> <<"gpt-">>
    [] s = "gpt-5" -> <<"gpt-", "5">>
    [] s = "gpt-5-mini" -> <<"gpt-", "5", "-mini">>
    [] s = "gpt-4o" -> <<"gpt-", "4o">>
    [] s = "o3" -> <<"o3">>
    [] OTHER -> <<s>>

\* String.prototype.startsWith
StartsWith(s, prefix) ==
  /\ Len(Chars(prefix)) <= Len(Chars(s))
  /\ SubSeq(Chars(s), 1, Len(Chars(prefix))) = Chars(prefix)

\* openaiModelsInputSchema applied to the arguments: prefix defaults to gpt-5.
OpenaiModelsParse(a) == Assign([prefix |-> S("gpt-5")], a)

\* m.id throws a TypeError when the entry m is null or undefined.
EntryThrows(m) == m.t \in {"absent", "null"}

\* typeof m.id === "string" && m.id.startsWith(prefix)
EntryMatches(m, prefix) ==
  IsStr(PropOf(m, "id")) /\ StartsWith(PropOf(m, "id").s, prefix.s)

\* list?.data?.filter(...).map((m) => m.id) ?? []: the ids, or the TypeError
\* raised when data has no filter method or an entry cannot be read.
ModelIds(list, prefix) ==
  LET data == PropOf(list, "data")
  IN IF data.t \in {"absent", "null"} THEN [ok |-> TRUE, ids |-> <<>>]
     ELSE IF ~IsArr(data) THEN [ok |-> FALSE, err |-> ExtractTypeError]
     ELSE IF \E j \in DOMAIN data.a : EntryThrows(data.a[j])
     THEN [ok |-> FALSE, err |-> ExtractTypeError]
     ELSE LET hits == SelectSeq(data.a, LAMBDA m : EntryMatches(m, prefix))
          IN [ok |-> TRUE, ids |-> [j \in DOMAIN hits |-> <<PropOf(hits[j], "id")>>]]

\* "(見つかりませんでした)"
NoneFound == Words(<<"(none-found)">>)

\* ModelsResult without the sentinel: the joined ids, even when empty.
ModelsResultNoSentinel(ids) ==
  [content |-> <<[type |-> "text", text |-> T(Join(ids, S(", ")))]>>]

\* { content: [{ type: "text", text: ids.join(", ") || "(...)" }] }
ModelsResult(ids) ==
  [content |-> <<[type |-> "text",
                  text |-> T(IF Join(ids, S(", ")) = <<>> THEN NoneFound
                             ELSE Join(ids, S(", ")))]>>]

\* `${x}` for a value that need not be a string.
Interpolated(x) == IF IsString(x) THEN Tokens(x) ELSE StringOf(x).a

\* The catch block of openai_models: "Error: " and err.message when err is
\* an object with a message, else String(err).
ModelsErrorResult(err) ==
  LET message == IF (IsObj(err) \/ IsArr(err)) /\ Has(Fields(err), "message")
                 THEN PropOf(err, "message") ELSE StringOf(err)
  IN [content |-> <<[type |-> "text",
                     text |-> T(<<S("Error:")>> \o Interpolated(message))]>>,
      isError |-> TRUE]

\* The longest model list the listing endpoint returns here.
MaxModels == 3

ModelEntries ==
  {O([id |-> S("gpt-5")]), O([id |-> S("gpt-5-mini")]), O([id |-> S("gpt-4o")]),
   O([id |-> N(5)])}

\* What openai.models.list may resolve to.
ModelLists ==
  {O([data |-> A(d)]) : d \in SeqsUpTo(ModelEntries, MaxModels)}
    \cup {O([data |-> A(<<O([object |-> S("model")]), S("o3"), O([id |-> S("o3")])>>)]),
          O([data |-> A(<<O([id |-> S("gpt-5")]), Null>>)]),
          O([data |-> S("not an array")]),
          O([object |-> S("list")]),
          Null}

\* The arguments openai_models is called with.
ModelsArgs ==
  {EmptyObj, [prefix |-> S("gpt-5")], [prefix |-> S("gpt-")], [prefix |-> S("o3")],
   [prefix |-> S("")], [prefix |-> S("claude")]}

\* openai_models is called: it awaits openai.models.list().
OpenaiModelsCall(i, a) ==
  /\ pc[i] = "idle"
  /\ args' = [args EXCEPT ![i] = a]
  /\ pc' = [pc EXCEPT ![i] = "awaiting"]
  /\ UNCHANGED <<variant, body, reply, result, sent, log, nArgs, nOut, environ, loaded>>

\* The listing resolves with list: the matching ids are returned, or the
\* error result when reading the list throws.
OpenaiModelsReply(i, list) ==
  /\ pc[i] = "awaiting"
  /\ reply' = [reply EXCEPT ![i] = [kind |-> "resp", v |-> list]]
  /\ pc' = [pc EXCEPT ![i] = "done"]
  /\ result' = [result EXCEPT ![i] =
       LET prefix == OpenaiModelsParse(args[i])["prefix"]
       IN Append(@, IF ModelIds(list, prefix).ok
                    THEN ModelsResult(ModelIds(list, prefix).ids)
                    ELSE ModelsErrorResult(ModelIds(list, prefix).err))]
  /\ UNCHANGED <<variant, args, body, sent, log, nArgs, nOut, environ, loaded>>

\* The listing rejects with err.
OpenaiModelsError(i, err) ==
  /\ pc[i] = "awaiting"
  /\ reply' = [reply EXCEPT ![i] = [kind |-> "error", v |-> err]]
  /\ pc' = [pc EXCEPT ![i] = "done"]
  /\ result' = [result EXCEPT ![i] = Append(@, ModelsErrorResult(err))]
  /\ UNCHANGED <<variant, args, body, sent, log, nArgs, nOut, environ, loaded>>

InitModels ==
  /\ variant = "full"
  /\ InitCalls({1})
  /\ nArgs = EmptyObj
  /\ nOut = NotNormalized
  /\ Started

NextModels ==
  \/ \E i \in DOMAIN pc : \E a \in ModelsArgs : OpenaiModelsCall(i, a)
  \/ \E i \in DOMAIN pc : \E list \in ModelLists : OpenaiModelsReply(i, list)
  \/ \E i \in DOMAIN pc : \E err \in ApiErrors : OpenaiModelsError(i, err)

SpecModels == InitModels /\ [][NextModels]_vars

\* ------------------------------------------------------- the server starts

\* Module load: loadOpenAIKey runs once and, when it finds a key, writes it
\* to process.env.OPENAI_API_KEY.
LoadOpenAIKey ==
  /\ loaded = NotLoaded
  /\ loaded' = loadOpenAIKey(environ)
  /\ environ' = IF loadOpenAIKey(environ).key = Null THEN environ
                ELSE [environ EXCEPT !.env = loadOpenAIKey(environ).key]
  /\ UNCHANGED <<variant, pc, args, body, reply, result, sent, log, nArgs, nOut>>

InitKey ==
  /\ variant \in {"full", "mvp"}
  /\ InitCalls({})
  /\ nArgs = EmptyObj
  /\ nOut = NotNormalized
  /\ environ \in Environs
  /\ loaded = NotLoaded

NextKey == LoadOpenAIKey

SpecKey == InitKey /\ [][NextKey]_vars

\* ----------------------------------------------------------------- claims

\* The argument set passes requestSchema (the full server's schema).
Accepted(a) == \A k \in DOMAIN a : FieldOk(k, a[k])

\* `extra` is an object that carries key k.
ExtraHas(a, k) == IsObj(Get(a, "extra")) /\ Has(a["extra"].o, k)

NonEmptyMessages(a) == IsArr(Get(a, "messages")) /\ Len(a["messages"].a) > 0

NoContent(a) == ~Has(a, "input") /\ ~Has(a, "messages") /\ ~Has(a, "prompt")

\* The precedence input > non-empty messages > prompt, read off the result.
InputPrecedence(a, out) ==
  /\ Has(a, "input") => out.ok /\ Get(out.body, "input") = a["input"]
  /\ ~Has(a, "input") /\ NonEmptyMessages(a)
       => out.ok /\ Get(out.body, "input") = a["messages"]
  /\ ~Has(a, "input") /\ ~NonEmptyMessages(a) /\ Has(a, "prompt")
       => out.ok /\ Get(out.body, "input") = a["prompt"]

IsErrorResult(r) == "isError" \in DOMAIN r /\ r.isError

ResultText(r) == r.content[1].text.a

\* C2: an accepted argument set with none of input / messages / prompt makes
\* the gpt5 tool return, without calling the API, one result with the error
\* flag whose text names input, messages and prompt.
C2_NoContentIsAnError ==
  \A i \in DOMAIN pc :
    variant = "full" /\ pc[i] # "idle" /\ Accepted(args[i]) /\ NoContent(args[i])
      => /\ pc[i] = "done"
         /\ reply[i].kind = "none"
         /\ Len(result[i]) = 1
         /\ IsErrorResult(result[i][1])
         /\ \A f \in {"input", "messages", "prompt"} : Mentions(ResultText(result[i][1]), f)

\* C2 witness: the tool was called with only `extra` and a model, and failed.
C2_Witness ==
  \E i \in DOMAIN pc :
    /\ variant = "full" /\ pc[i] = "done" /\ NoContent(args[i])
    /\ Has(args[i], "extra") /\ Accepted(args[i])
    /\ IsErrorResult(result[i][1])

\* C3: accepted arguments with `messages: []` and neither input nor prompt
\* fail with an error; the empty list is not forwarded as the input.
C3_EmptyMessagesIsAnError ==
  nOut.done /\ Accepted(nArgs) /\ Get(nArgs, "messages") = A(<<>>)
    /\ ~Has(nArgs, "input") /\ ~Has(nArgs, "prompt")
    => /\ ~nOut.ok
       /\ Truthy(PropOf(nOut.err, "message"))
       /\ nOut.body = EmptyObj

\* C3 witness: messages: [] with neither input nor prompt, and it failed.
C3_Witness ==
  /\ nOut.done /\ Accepted(nArgs) /\ Get(nArgs, "messages") = A(<<>>)
  /\ ~Has(nArgs, "input") /\ ~Has(nArgs, "prompt")
  /\ nOut.err = EmptyMessagesError

\* C4 as stated: the canonical request never has stream = true.
C4_StreamNeverTrue ==
  nOut.done /\ nOut.ok => Get(nOut.body, "stream") # B(TRUE)

\* The MVP arguments ask for effort `minimal` with web search on (given as
\* true, or left out so that it defaults to true).
MinimalWithWebSearch(a) ==
  /\ Get(a, "reasoning_effort") = S("minimal")
  /\ Get(a, "web_search") \in {Absent, B(TRUE)}

\* Every field of the MVP arguments is valid on its own and no key is unknown.
MvpFieldsValid(a) ==
  /\ \A k \in Range(MvpKeys) : ~MvpTypeIssue(a, k)
  /\ a["input"] # S("")
  /\ DOMAIN a \subseteq Range(MvpKeys)

\* C5: MVP arguments with effort `minimal` and web_search true or omitted
\* fail validation (no request is sent, the result has the error flag), and
\* unless a field has a wrong type the error names both reasoning_effort and
\* web_search; arguments that are valid field by field and have web_search
\* false or another effort pass the rule and the request is sent.
C5_MinimalForbidsWebSearch ==
  \A i \in DOMAIN pc :
    variant = "mvp" /\ pc[i] # "idle" =>
      /\ MinimalWithWebSearch(args[i]) =>
           /\ pc[i] = "done" /\ reply[i].kind = "none" /\ sent = <<>>
           /\ IsErrorResult(result[i][1])
           /\ (\A k \in Range(MvpKeys) : ~MvpTypeIssue(args[i], k)) =>
                /\ Mentions(ResultText(result[i][1]), "reasoning_effort")
                /\ Mentions(ResultText(result[i][1]), "web_search")
      /\ MvpFieldsValid(args[i]) /\ ~MinimalWithWebSearch(args[i]) =>
           /\ Len(sent) = 1
           /\ pc[i] = "done" => reply[i].kind # "none"

\* C5 witness: effort minimal with web_search left out was rejected, naming
\* both fields.
C5_Witness ==
  \E i \in DOMAIN pc :
    /\ variant = "mvp" /\ pc[i] = "done"
    /\ Get(args[i], "reasoning_effort") = S("minimal")
    /\ ~Has(args[i], "web_search") /\ ~Has(args[i], "model")
    /\ Mentions(ResultText(result[i][1]), "reasoning_effort")
    /\ Mentions(ResultText(result[i][1]), "web_search")

\* The token-limit alias, read off the result.
TokenAlias(a, out) ==
  /\ Has(a, "max_tokens") /\ Has(a, "max_output_tokens")
       => Get(out.body, "max_output_tokens") = a["max_output_tokens"]
  /\ Has(a, "max_tokens") /\ ~Has(a, "max_output_tokens")
       => Get(out.body, "max_output_tokens") = a["max_tokens"]
  /\ ~Has(a, "max_tokens") /\ ~Has(a, "max_output_tokens")
       => ~Has(out.body, "max_output_tokens")

\* C6 as stated: the explicit max_output_tokens wins over max_tokens, a lone
\* max_tokens is copied across, and neither gives no max_output_tokens.
C6_TokenAliasAlways ==
  nOut.done /\ nOut.ok => TokenAlias(nArgs, nOut)

\* C6 amended: the same, for argument sets whose `extra` carries no
\* max_output_tokens key.
C6_TokenAliasUnlessExtra ==
  nOut.done /\ nOut.ok /\ ~ExtraHas(nArgs, "max_output_tokens")
    => TokenAlias(nArgs, nOut)

\* C6 witness: max_tokens 10 with max_output_tokens 20 gave 20.
C6_Witness ==
  /\ nOut.done /\ nOut.ok
  /\ Get(nArgs, "max_tokens") = N(10) /\ Get(nArgs, "max_output_tokens") = N(20)
  /\ Get(nOut.body, "max_output_tokens") = N(20)

LegacyKeys ==
  {"messages", "prompt", "max_tokens", "reasoning_effort", "response_format",
   "verbosity", "extra"}

\* C7 as stated: no legacy or alias key is a key of the canonical request.
C7_NoLegacyKeys ==
  nOut.done /\ nOut.ok => (DOMAIN nOut.body) \cap LegacyKeys = {}

\* The tool object a shorthand stands for; objects stand for themselves.
Expanded(x) ==
  IF x \in {S("web_search"), S("web_search_preview")}
  THEN O([type |-> S("web_search_preview")])
  ELSE IF x = S("file_search") THEN O([type |-> S("file_search")])
  ELSE x

\* The expansion of the tools list, read off the result.
ToolsExpanded(a, out) ==
  LET got == Get(out.body, "tools")
  IN IF Has(a, "tools")
     THEN /\ IsArr(got)
          /\ Len(got.a) = Len(a["tools"].a)
          /\ \A j \in DOMAIN got.a : got.a[j] = Expanded(a["tools"].a[j])
     ELSE got = A(<<O([type |-> S("web_search_preview")])>>)

\* C8 as stated: the tools list is expanded element by element, keeping
\* order and length, and a missing list becomes the web-search default.
C8_ToolsExpandedAlways ==
  nOut.done /\ nOut.ok => ToolsExpanded(nArgs, nOut)

\* C8 amended: the same, for argument sets whose `extra` carries no `tools`
\* key.
C8_ToolsExpandedUnlessExtra ==
  nOut.done /\ nOut.ok /\ ~ExtraHas(nArgs, "tools") => ToolsExpanded(nArgs, nOut)

\* C8 witness: ["file_search", "web_search"] was expanded in order.
C8_Witness ==
  /\ nOut.done /\ nOut.ok
  /\ Get(nArgs, "tools") = A(<<S("file_search"), S("web_search")>>)
  /\ Get(nOut.body, "tools") = A(<<O([type |-> S("file_search")]),
                                   O([type |-> S("web_search_preview")])>>)

\* C9 as stated: the canonical tools is present and is a sequence of tool
\* objects, none of them tagged web_search.
C9_ToolsAreObjects ==
  nOut.done /\ nOut.ok =>
    /\ Has(nOut.body, "tools")
    /\ IsArr(nOut.body["tools"])
    /\ \A j \in DOMAIN nOut.body["tools"].a :
         /\ IsObj(nOut.body["tools"].a[j])
         /\ Get(nOut.body["tools"].a[j].o, "type") # S("web_search")

\* Building the body, the API call or the extraction of the text threw.
Raised(i) ==
  \/ reply[i].kind = "none"
  \/ reply[i].kind = "error"
  \/ reply[i].kind = "resp" /\ ~ExtractText(reply[i].v).ok

\* C10: an invocation returns nothing before it is done and exactly one
\* result when it is; the result has the error flag exactly when building
\* the body (validation, normalization), the API call or the extraction
\* threw, and otherwise it is the extracted text with no error flag.
C10_OneResultFlaggedIffRaised ==
  \A i \in DOMAIN pc :
    /\ pc[i] # "done" => result[i] = <<>>
    /\ pc[i] = "done" =>
         /\ Len(result[i]) = 1
         /\ IsErrorResult(result[i][1]) <=> Raised(i)
         /\ ~Raised(i) =>
              /\ DOMAIN result[i][1] = {"content"}
              /\ result[i][1].content = <<[type |-> "text",
                                           text |-> ExtractText(reply[i].v).text]>>
         /\ reply[i].kind = "none" <=> body[i] = EmptyObj

\* C10 witness: the extraction threw on a response it could not read, and the
\* invocation still returned an error result.
C10_Witness ==
  \E i \in DOMAIN pc :
    /\ pc[i] = "done" /\ reply[i].kind = "resp"
    /\ ~ExtractText(reply[i].v).ok
    /\ IsErrorResult(result[i][1])

\* The calls of openai.responses.create made by invocation i.
CallsOf(i) == {k \in DOMAIN sent : sent[k].by = i}

\* C11: an invocation calls the API at most once; it has called it exactly
\* when building the body (validation and normalization) succeeded, with
\* the body that was built; when building failed it made no call and is done
\* with no reply; the catch block (which recomputes the body for the log)
\* adds no call.
C11_CallOnlyAfterBuildAtMostOnce ==
  \A i \in DOMAIN pc :
    /\ Cardinality(CallsOf(i)) <= 1
    /\ pc[i] = "idle" => CallsOf(i) = {}
    /\ pc[i] # "idle" /\ ~Build(args[i]).ok
         => CallsOf(i) = {} /\ pc[i] = "done" /\ reply[i].kind = "none"
    /\ pc[i] # "idle" /\ Build(args[i]).ok
         => \E k \in CallsOf(i) : sent[k].body = Build(args[i]).body

\* C11 witness: the API call failed, the body was recomputed and logged, and
\* the invocation is done with its single call.
C11_Witness ==
  \E i \in DOMAIN pc :
    /\ pc[i] = "done" /\ reply[i].kind = "error"
    /\ Cardinality(CallsOf(i)) = 1
    /\ Len(log) = 1 /\ log[1] = body[i]

\* `extra` of the arguments, as the object that is merged.
ExtraOf(a) == IF IsObj(Get(a, "extra")) THEN a["extra"].o ELSE EmptyObj

\* The value at k of the canonical request is exactly extra[k].
ExtraWins(a, out, k) == Has(out.body, k) /\ out.body[k] = ExtraOf(a)[k]

\* C12 as stated: every key of `extra` has exactly extra's value in the
\* canonical request.
C12_ExtraLastWriteWins ==
  nOut.done /\ nOut.ok => \A k \in DOMAIN ExtraOf(nArgs) : ExtraWins(nArgs, nOut, k)

\* The keys that the steps after the merge write: the verbosity move and the
\* response_format migration.
WrittenAfterMerge == {"verbosity", "text", "response_format_original"}

\* A step after the merge has something to do: the merged body has a truthy
\* verbosity, or a response_format was given.
MigratesAfterMerge(a) ==
  \/ Has(a, "response_format")
  \/ Truthy(IF Has(ExtraOf(a), "verbosity") THEN ExtraOf(a)["verbosity"]
            ELSE Get(a, "verbosity"))

\* C12 amended: every key of `extra` other than verbosity, text and
\* response_format_original has exactly extra's value in the canonical
\* request, and so have these three when neither a truthy verbosity nor a
\* response_format is there to be migrated after the merge; a truthy
\* extra.verbosity is moved into text.verbosity.
C12_ExtraWinsBeforeMigrations ==
  nOut.done /\ nOut.ok =>
    /\ \A k \in DOMAIN ExtraOf(nArgs) :
         k \notin WrittenAfterMerge \/ ~MigratesAfterMerge(nArgs)
           => ExtraWins(nArgs, nOut, k)
    /\ Truthy(Get(ExtraOf(nArgs), "verbosity"))
         => /\ ~Has(nOut.body, "verbosity")
            /\ IsObj(Get(nOut.body, "text"))
            /\ Get(nOut.body["text"].o, "verbosity") = ExtraOf(nArgs)["verbosity"]

\* C12 witness: extra.tools replaced the normalized tools of the arguments.
C12_Witness ==
  /\ nOut.done /\ nOut.ok
  /\ Has(nArgs, "tools") /\ Has(ExtraOf(nArgs), "tools")
  /\ nArgs["tools"] # ExtraOf(nArgs)["tools"]
  /\ nOut.body["tools"] = ExtraOf(nArgs)["tools"]

\* The MVP arguments carry a key the schema does not declare, a model outside
\* the three allowed ones, or an empty input.
MvpRejected(a) ==
  \/ (DOMAIN a) \ Range(MvpKeys) # {}
  \/ Has(a, "model") /\ ~IsEnum(a["model"], MvpModels)
  \/ Get(a, "input") = S("")

\* C13: an invocation of the MVP gpt5 tool whose arguments carry an
\* undeclared key, a model outside gpt-5 / gpt-5-mini / gpt-5-nano or an
\* empty input returns one error-flagged result and calls the API never.
C13_MvpStrictRejects ==
  \A i \in DOMAIN pc :
    variant = "mvp" /\ pc[i] # "idle" /\ MvpRejected(args[i])
      => /\ ~MvpSchemaParse(args[i]).ok
         /\ pc[i] = "done" /\ reply[i].kind = "none"
         /\ CallsOf(i) = {}
         /\ Len(result[i]) = 1 /\ IsErrorResult(result[i][1])

\* C13 witness: arguments that are valid but for an undeclared `tools` key
\* were rejected.
C13_Witness ==
  \E i \in DOMAIN pc :
    /\ variant = "mvp" /\ pc[i] = "done"
    /\ Has(args[i], "tools")
    /\ MvpFieldsValid(Without(args[i], {"tools"}))
    /\ ~MinimalWithWebSearch(args[i])
    /\ IsErrorResult(result[i][1]) /\ sent = <<>>

\* The keys normalizeRequest reads or writes in one of its steps.
HandledKeys ==
  Destructured \cup {"tools", "max_output_tokens", "reasoning", "verbosity",
                     "text", "response_format_original"}

\* The argument's field k is in the canonical request, unchanged.
PassedThrough(a, out, k) == Has(out.body, k) /\ out.body[k] = a[k]

\* C14 as stated: every field of the arguments that no step handles is in
\* the canonical request under its key with its value.
C14_UnhandledFieldsPassThrough ==
  nOut.done /\ nOut.ok =>
    \A k \in (DOMAIN nArgs) \ HandledKeys : PassedThrough(nArgs, nOut, k)

\* C14 amended: every field of the arguments that no step handles, and that
\* `extra` does not carry as well, is in the canonical request under its key
\* with its value; with the key in `extra`, the value is extra's.
C14_PassThroughUnlessExtra ==
  nOut.done /\ nOut.ok =>
    \A k \in (DOMAIN nArgs) \ HandledKeys :
      IF Has(ExtraOf(nArgs), k) THEN ExtraWins(nArgs, nOut, k)
      ELSE PassedThrough(nArgs, nOut, k)

\* C14 witness: a declared field and an undeclared one came through, next to
\* an `extra` that carried another key.
C14_Witness ==
  /\ nOut.done /\ nOut.ok
  /\ Has(nArgs, "tool_choice") /\ Has(nArgs, "store") /\ Has(nArgs, "seed")
  /\ Has(ExtraOf(nArgs), "include")
  /\ nOut.body["tool_choice"] = nArgs["tool_choice"]
  /\ nOut.body["store"] = nArgs["store"]
  /\ nOut.body["seed"] = nArgs["seed"]

\* An already-canonical request: accepted by the schema, with an input, with
\* no legacy or alias field and no shorthand string among its tools.
AlreadyCanonical(a) ==
  /\ Accepted(a) /\ Has(a, "input")
  /\ (DOMAIN a) \cap LegacyKeys = {}
  /\ Has(a, "tools") => \A j \in DOMAIN a["tools"].a : IsObj(a["tools"].a[j])

\* C15 as stated: an already-canonical
\* request is returned as it is but for the default tools when it has none,
\* and normalizing the canonical request once more returns it unchanged.
C15_Idempotent ==
  nOut.done =>
    /\ AlreadyCanonical(nArgs) =>
         /\ nOut.ok
         /\ nOut.body = Assign([tools |-> DefaultTools], nArgs)
    /\ nOut.ok =>
         /\ normalizeRequest(nOut.body).ok
         /\ normalizeRequest(nOut.body).body = nOut.body

\* The request with `reasoning`, if it has one, reduced to its `effort` key.
EffortOnly(a) ==
  IF Has(a, "reasoning")
  THEN Assign(a, [reasoning |->
                    O([k \in (DOMAIN a["reasoning"].o) \cap {"effort"} |->
                         a["reasoning"].o[k]])])
  ELSE a

\* C15 amended: an already-canonical request is returned with `model` and
\* `tools` filled in with their defaults when absent, a truthy `stream`
\* turned to false and a falsy `stream` dropped, `reasoning` reduced to its
\* `effort` key, and is otherwise equal to the input; and for arguments with no `extra` and no truthy `stream`,
\* normalizing the canonical request once more returns it unchanged.
C15_IdempotentButStreamAndModel ==
  nOut.done =>
    /\ AlreadyCanonical(nArgs) =>
         /\ nOut.ok
         /\ nOut.body =
              Assign([model |-> S("gpt-5"), tools |-> DefaultTools],
                     IF Truthy(Get(nArgs, "stream"))
                     THEN Assign(EffortOnly(nArgs), [stream |-> B(FALSE)])
                     ELSE Without(EffortOnly(nArgs), {"stream"}))
    /\ nOut.ok /\ ~Has(nArgs, "extra") /\ ~Truthy(Get(nArgs, "stream")) =>
         /\ normalizeRequest(nOut.body).ok
         /\ normalizeRequest(nOut.body).body = nOut.body

\* C15 witness: arguments with a legacy response_format and verbosity were
\* normalized, and normalizing the result again gives the same request.
C15_Witness ==
  /\ nOut.done /\ nOut.ok
  /\ Has(nArgs, "response_format") /\ Has(nArgs, "verbosity")
  /\ ~Has(nArgs, "extra")
  /\ Has(nOut.body, "text")
  /\ normalizeRequest(nOut.body).ok
  /\ normalizeRequest(nOut.body).body = nOut.body

\* The non-empty string-typed `text` values of the content parts of an
\* output item, in order; none when the item has no content array.
TextsOfItem(o) ==
  IF IsArr(PropOf(o, "content"))
  THEN LET parts == PropOf(o, "content").a
           texts == [j \in DOMAIN parts |->
                       IF IsString(PropOf(parts[j], "text"))
                       THEN Tokens(PropOf(parts[j], "text")) ELSE <<>>]
       IN SelectSeq(texts, LAMBDA x : x # <<>>)
  ELSE <<>>

\* The texts of all the items, in order, as one flat sequence.
RECURSIVE TextsOfItems(_)
TextsOfItems(items) ==
  IF items = <<>> THEN <<>>
  ELSE TextsOfItem(Head(items)) \o TextsOfItems(Tail(items))

\* The text the claim expects for a response, by priority.
ExpectedText(resp) ==
  IF IsString(PropOf(resp, "output_text")) THEN Tokens(PropOf(resp, "output_text"))
  ELSE IF IsArr(PropOf(resp, "output"))
  THEN Join(TextsOfItems(PropOf(resp, "output").a), S("\n"))
  ELSE <<Dump(resp)>>

\* C16: whenever an invocation returns the text extracted from the response,
\* that text is the string output_text if there is one (also the empty one,
\* whatever `output` holds), else for an array `output` the texts of the
\* parts of its items joined in order by newlines with the empty and missing
\* ones skipped, else the dump of the whole response.
C16_ExtractionPriority ==
  \A i \in DOMAIN pc :
    pc[i] = "done" /\ reply[i].kind = "resp" /\ ~IsErrorResult(result[i][1])
      => ResultText(result[i][1]) = ExpectedText(reply[i].v)

\* C16 witness: of three items with text parts a (after an empty text and
\* before a numeric one), none and b, the result is a, newline, b.
C16_Witness ==
  \E i \in DOMAIN pc :
    /\ pc[i] = "done" /\ reply[i].kind = "resp"
    /\ ~Has(reply[i].v.o, "output_text")
    /\ IsArr(PropOf(reply[i].v, "output")) /\ Len(reply[i].v.o["output"].a) = 4
    /\ ~IsErrorResult(result[i][1])
    /\ ResultText(result[i][1]) = <<S("a"), S("\n"), S("b")>>

\* C17 as stated: for every response object the extraction returns and the
\* result is a success; when `output` is an array with no extractable text
\* the text is the empty string.
C17_ExtractionNeverRaises ==
  \A i \in DOMAIN pc :
    pc[i] = "done" /\ reply[i].kind = "resp" /\ IsObj(reply[i].v)
      => /\ ~IsErrorResult(result[i][1])
         /\ /\ ~IsString(PropOf(reply[i].v, "output_text"))
            /\ IsArr(PropOf(reply[i].v, "output"))
            /\ TextsOfItems(PropOf(reply[i].v, "output").a) = <<>>
            => ResultText(result[i][1]) = <<>>

\* The prefix an openai_models call filters by: the one given, else gpt-5.
PrefixOf(a) == IF Has(a, "prefix") THEN a["prefix"] ELSE S("gpt-5")

\* The listing can be read: data is missing or a list of entries that are
\* neither null nor undefined.
Listable(list) ==
  \/ PropOf(list, "data").t \in {"absent", "null"}
  \/ /\ IsArr(PropOf(list, "data"))
     /\ \A j \in DOMAIN PropOf(list, "data").a :
          PropOf(list, "data").a[j].t \notin {"absent", "null"}

\* The identifiers of the listing that are strings starting with the
\* prefix, in the listing's order.
Listed(list, prefix) ==
  IF ~IsArr(PropOf(list, "data")) THEN <<>>
  ELSE LET d == PropOf(list, "data").a
           hit(j) == /\ IsObj(d[j]) /\ Has(d[j].o, "id") /\ d[j].o["id"].t = "str"
                     /\ StartsWith(d[j].o["id"].s, prefix.s)
           RECURSIVE From(_)
           From(j) == IF j > Len(d) THEN <<>>
                      ELSE IF hit(j) THEN <<<<d[j].o["id"]>>>> \o From(j + 1)
                      ELSE From(j + 1)
       IN From(1)

\* C18: an openai_models call returns one result and throws nothing. When
\* the listing resolves to a readable list, the text is the identifiers
\* that are strings starting with the prefix (gpt-5 when none is given), in
\* the listing's order, joined by ", ", or the none-found sentinel when no
\* identifier matches. When the listing call fails, or reading the list
\* fails, the result is flagged as an error and its text is "Error:"
\* followed by the error's message.
C18_ModelsListed ==
  \A i \in DOMAIN pc :
    pc[i] = "done"
      => /\ Len(result[i]) = 1
         /\ reply[i].kind = "resp" /\ Listable(reply[i].v)
              => /\ ~IsErrorResult(result[i][1])
                 /\ ResultText(result[i][1]) =
                      IF Listed(reply[i].v, PrefixOf(args[i])) = <<>> THEN NoneFound
                      ELSE Join(Listed(reply[i].v, PrefixOf(args[i])), S(", "))
         /\ reply[i].kind = "resp" /\ ~Listable(reply[i].v)
              => /\ IsErrorResult(result[i][1])
                 /\ ResultText(result[i][1])[1] = S("Error:")
         /\ reply[i].kind = "error"
              => /\ IsErrorResult(result[i][1])
                 /\ ResultText(result[i][1])[1] = S("Error:")
                 /\ IsText(PropOf(reply[i].v, "message"))
                      => ResultText(result[i][1]) =
                           <<S("Error:")>> \o PropOf(reply[i].v, "message").a

\* A call without a prefix lists gpt-5 and gpt-5-mini, skipping gpt-4o.
C18_Witness ==
  \E i \in DOMAIN pc :
    /\ pc[i] = "done" /\ args[i] = EmptyObj
    /\ reply[i] = [kind |-> "resp",
                   v |-> O([data |-> A(<<O([id |-> S("gpt-5")]), O([id |-> S("gpt-4o")]),
                                        O([id |-> S("gpt-5-mini")])>>)])]
    /\ ResultText(result[i][1]) = <<S("gpt-5"), S(", "), S("gpt-5-mini")>>
    /\ ~IsErrorResult(result[i][1])

\* The first candidate, in the order cwd/.env, here/.env, here/../.env,
\* that is a file holding a non-blank OPENAI_API_KEY; 0 when there is none.
Supplier(fs) ==
  IF \E j \in DOMAIN Candidates : HoldsKey(fs, Candidates[j])
  THEN CHOOSE j \in DOMAIN Candidates :
         /\ HoldsKey(fs, Candidates[j])
         /\ \A k \in 1..(j - 1) : ~HoldsKey(fs, Candidates[k])
  ELSE 0

\* C19: when loadOpenAIKey runs, the key it returns is the trimmed key of
\* the first candidate file (in the order cwd/.env, here/.env,
\* here/../.env) that holds a non-blank OPENAI_API_KEY, with that file
\* named as the source; when no file holds one it is the environment
\* variable as it was, with source env; when that is unset or empty too the
\* key is null with source not-found; and the key is null exactly when the
\* source is not-found.
C19_KeyResolution ==
  [][loaded' # loaded
       => /\ Supplier(environ.fs) # 0
               => /\ loaded'.key =
                       S(Trim(environ.fs[Candidates[Supplier(environ.fs)]].o["OPENAI_API_KEY"].s))
                  /\ loaded'.source = ".env:" \o Candidates[Supplier(environ.fs)]
                  /\ Trim(loaded'.key.s) = loaded'.key.s
          /\ Supplier(environ.fs) = 0 /\ Truthy(environ.env)
               => loaded'.key = environ.env /\ loaded'.source = "env"
          /\ Supplier(environ.fs) = 0 /\ ~Truthy(environ.env)
               => loaded'.key = Null /\ loaded'.source = "not-found"
          /\ loaded'.key = Null <=> loaded'.source = "not-found"]_vars

\* cwd/.env holds only a blank key, here/.env a padded one and here/../.env
\* another, and the environment variable was set: here/.env supplied the
\* key, trimmed.
C19_Witness ==
  /\ loaded = [key |-> S("sk-here"), source |-> ".env:here/.env"]
  /\ environ.fs["cwd/.env"] = O([OPENAI_API_KEY |-> S("  ")])
  /\ environ.fs["here/.env"] = O([OPENAI_API_KEY |-> S(" sk-here ")])
  /\ environ.fs["here/../.env"] = O([OPENAI_API_KEY |-> S("sk-root")])
  /\ environ.env = S("sk-here")

\* The arguments of the default scenario.
DefaultCall == Obj([model |-> S("gpt-5"), input |-> S("Summarize X")])

\* C20: a gpt5 call with exactly {model: "gpt-5", input: "Summarize X"} sends
\* one request, whose model is gpt-5, whose input is "Summarize X", whose
\* tools are [{type: "web_search_preview"}], and which has no stream key;
\* it has no reasoning key on the full server, whose schema declares no
\* reasoning default, and reasoning {effort: "medium"} on the minimal
\* server, whose schema defaults reasoning_effort to medium.
C20_DefaultScenario ==
  \A i \in DOMAIN pc :
    args[i] = DefaultCall /\ pc[i] # "idle"
      => /\ Cardinality(CallsOf(i)) = 1
         /\ \A k \in CallsOf(i) :
              /\ Get(sent[k].body, "model") = S("gpt-5")
              /\ Get(sent[k].body, "input") = S("Summarize X")
              /\ Get(sent[k].body, "tools") = A(<<O([type |-> S("web_search_preview")])>>)
              /\ ~Has(sent[k].body, "stream")
              /\ variant = "full" => DOMAIN sent[k].body = {"model", "input", "tools"}
              /\ variant = "mvp"
                   => /\ Get(sent[k].body, "reasoning") = O([effort |-> S("medium")])
                      /\ DOMAIN sent[k].body = {"model", "input", "tools", "reasoning"}

\* The full server answered the default scenario from a request without a
\* reasoning key.
C20_Witness ==
  \E i \in DOMAIN pc :
    /\ variant = "full" /\ args[i] = DefaultCall /\ pc[i] = "done"
    /\ reply[i].kind = "resp"
    /\ sent = <<[by |-> i,
                 body |-> [model |-> S("gpt-5"), input |-> S("Summarize X"),
                           tools |-> A(<<O([type |-> S("web_search_preview")])>>)]]>>

\* The ToolResult of an invocation with arguments a whose API call settled
\* to r (kind "none" when no call was made).
OwnResult(v, a, r) ==
  LET built == IF v = "full" THEN normalizeRequest(a) ELSE buildRequest(a)
  IN IF ~built.ok THEN ErrorResult(built.err)
     ELSE IF r.kind = "error" THEN ErrorResult(r.v)
     ELSE IF ExtractText(r.v).ok THEN SuccessResult(ExtractText(r.v).text)
     ELSE ErrorResult(ExtractText(r.v).err)

\* C21: with up to MaxCalls invocations outstanding at once, in every
\* interleaving the request an invocation sent is the one built from its own
\* arguments, and its result is the one its own arguments and its own reply
\* or failure determine, whatever the other invocations did; and the key
\* and its source are never written after startup.
C21_InvocationsIndependent ==
  /\ [](\A i \in DOMAIN pc :
          /\ \A k \in CallsOf(i) :
               /\ Build(args[i]).ok
               /\ sent[k].body = Build(args[i]).body
          /\ pc[i] = "awaiting" => result[i] = <<>> /\ Cardinality(CallsOf(i)) = 1
          /\ pc[i] = "done" => result[i] = <<OwnResult(variant, args[i], reply[i])>>)
  /\ [][loaded' = loaded /\ environ' = environ]_vars

\* Two invocations overlapped and were answered in the opposite order of
\* their calls: the first got the failure and the second the text.
C21_Witness ==
  /\ MaxCalls >= 2
  /\ pc[1] = "done" /\ pc[2] = "done"
  /\ Len(sent) = 2 /\ sent[1].by = 2 /\ sent[2].by = 1
  /\ sent[1].body # sent[2].body
  /\ reply[1].kind = "error" /\ reply[2].kind = "resp"
  /\ IsErrorResult(result[1][1]) /\ Mentions(ResultText(result[1][1]), "Bad")
  /\ ~IsErrorResult(result[2][1]) /\ ResultText(result[2][1]) = Words(<<"hello">>)
  /\ Len(log) = 1 /\ log[1] = sent[2].body

\* The models the description of the minimal gpt5 tool bars from web search.
SmallModels == {S("gpt-5-mini"), S("gpt-5-nano")}

\* tools contains {type: "web_search_preview"}
HasWebSearch(b) ==
  /\ IsArr(Get(b, "tools"))
  /\ \E j \in DOMAIN b["tools"].a : PropOf(b["tools"].a[j], "type") = S("web_search_preview")

\* C22: the minimal server sends no request whose model is gpt-5-mini or
\* gpt-5-nano with a web_search_preview tool attached.
C22_NoWebSearchOnSmallModels ==
  \A k \in DOMAIN sent :
    variant = "mvp" /\ Get(sent[k].body, "model") \in SmallModels
      => ~HasWebSearch(sent[k].body)

\* The tag of a legacy response_format object: its type, else its format.
TagOf(rf) ==
  IF ~IsObj(rf) THEN Absent
  ELSE IF Get(rf.o, "type").t \in {"absent", "null"} THEN Get(rf.o, "format")
  ELSE rf.o["type"]

\* The response_format asks for JSON: the string "json", or an object
\* tagged json, json_object or json_schema.
AsksForJson(rf) ==
  rf = S("json") \/ TagOf(rf) \in {S("json"), S("json_object"), S("json_schema")}

\* What the migration leaves in the canonical request: text.format is json,
\* the keys the caller's text had are kept (a given verbosity is moved in),
\* and response_format_original is the json_schema value, or is absent.
FormatMigrated(a, out) ==
  LET rf == a["response_format"]
      text == Get(out.body, "text")
  IN /\ out.ok
     /\ IsObj(text) /\ Get(text.o, "format") = S("json")
     /\ IsObj(Get(a, "text"))
          => \A k \in (DOMAIN a["text"].o) \ {"format", "verbosity"} :
               Get(text.o, k) = a["text"].o[k]
     /\ Truthy(Get(a, "verbosity")) => Get(text.o, "verbosity") = a["verbosity"]
     /\ IF TagOf(rf) = S("json_schema")
        THEN Get(out.body, "response_format_original") = rf
        ELSE ~Has(out.body, "response_format_original")

\* C23 as stated: arguments that are otherwise accepted, with a
\* response_format that is the string "json" or an object tagged json,
\* json_object or json_schema, are normalized with text.format = json, the
\* other keys of text kept, and response_format_original set to the
\* json_schema value and to nothing else.
C23_ResponseFormatMigrated ==
  /\ nOut.done /\ Has(nArgs, "response_format") /\ AsksForJson(nArgs["response_format"])
  /\ Accepted(Without(nArgs, {"response_format"})) /\ ~Has(nArgs, "extra")
  => FormatMigrated(nArgs, nOut)

\* The arguments provide content: an input, a non-empty messages list or a
\* prompt.
ProvidesContent(a) == Has(a, "input") \/ NonEmptyMessages(a) \/ Has(a, "prompt")

\* C24 as stated: arguments that provide content and are otherwise accepted
\* are normalized without an error, and a response_format that is neither
\* the string "json" nor an object tagged json, json_object or json_schema
\* (another string, an unknown tag, no tag) is dropped: the canonical
\* request is the one the same arguments give without response_format.
C24_OnlyContentResolutionFails ==
  /\ nOut.done /\ ProvidesContent(nArgs)
  /\ Accepted(Without(nArgs, {"response_format"}))
  => /\ nOut.ok
     /\ Has(nArgs, "response_format") /\ ~AsksForJson(nArgs["response_format"])
          => nOut.body = normalizeRequest(Without(nArgs, {"response_format"})).body

\* What the verbosity move leaves in the canonical request. Given a
\* top-level verbosity: no top-level verbosity, text.verbosity is the given
\* value, and the other keys the given text had are kept (format unless a
\* response_format is migrated over it). Given none: text is the given text,
\* but for the format a migrated response_format writes.
VerbosityMoved(a, out) ==
  LET text == Get(out.body, "text")
  IN IF Has(a, "verbosity")
     THEN /\ ~Has(out.body, "verbosity")
          /\ IsObj(text) /\ Get(text.o, "verbosity") = a["verbosity"]
          /\ IsObj(Get(a, "text"))
               => \A k \in (DOMAIN a["text"].o) \ {"verbosity"} :
                    k # "format" \/ ~Has(a, "response_format")
                      => Get(text.o, k) = a["text"].o[k]
     ELSE IF Has(a, "response_format")
     THEN IsObj(text) => Get(text.o, "verbosity") = PropOf(Get(a, "text"), "verbosity")
     ELSE text = Get(a, "text")

\* C25 as stated, for every accepted argument set.
C25_VerbosityMoved ==
  nOut.done /\ nOut.ok => VerbosityMoved(nArgs, nOut)

\* C25: the verbosity move does what is stated when `extra` carries
\* neither a verbosity nor a text of its own: a given top-level verbosity
\* leaves the top level and becomes text.verbosity next to the other keys of
\* text, and without one text is neither created nor altered by the move.
C25_VerbosityMovedUnlessExtra ==
  /\ nOut.done /\ nOut.ok
  /\ ~Has(ExtraOf(nArgs), "verbosity") /\ ~Has(ExtraOf(nArgs), "text")
  => VerbosityMoved(nArgs, nOut)

\* A verbosity was moved into a text that already had a format.
C25_Witness ==
  /\ nOut.done /\ nOut.ok
  /\ nArgs = Obj([input |-> S("Summarize X"), verbosity |-> S("low"),
                  text |-> O([format |-> S("plain")])])
  /\ nOut.body["text"] = O([format |-> S("plain"), verbosity |-> S("low")])
  /\ ~Has(nOut.body, "verbosity")

\* The reasoning object as the full schema hands it on: its effort key only.
EffortOf(r) == O([k \in (DOMAIN r.o) \cap {"effort"} |-> r.o[k]])

\* The reasoning of the minimal server's request: the given effort, or the
\* declared default.
MvpReasoning(a) ==
  O([effort |-> IF Has(a, "reasoning_effort") THEN a["reasoning_effort"] ELSE S("medium")])

\* C26 as stated: in a request of the full server, reasoning is
\* {effort: v} when only reasoning_effort = v was given, the given
\* reasoning object unchanged when one was given, and absent when neither
\* was; in a request of the minimal server it is {effort: e}, e the given
\* effort or medium.
C26_ReasoningAlias ==
  \A k \in DOMAIN sent :
    LET a == args[sent[k].by]
        b == sent[k].body
    IN IF variant = "mvp" THEN Get(b, "reasoning") = MvpReasoning(a)
       ELSE IF Has(a, "reasoning") THEN Get(b, "reasoning") = a["reasoning"]
       ELSE IF Has(a, "reasoning_effort")
       THEN Get(b, "reasoning") = O([effort |-> a["reasoning_effort"]])
       ELSE ~Has(b, "reasoning")

\* C26: as stated, except that a given reasoning object is forwarded with
\* its effort key only, and that on the full server `extra` carries no
\* reasoning of its own.
C26_ReasoningAliasEffortOnly ==
  \A k \in DOMAIN sent :
    LET a == args[sent[k].by]
        b == sent[k].body
    IN IF variant = "mvp" THEN Get(b, "reasoning") = MvpReasoning(a)
       ELSE IF Has(ExtraOf(a), "reasoning") THEN TRUE
       ELSE IF Has(a, "reasoning") THEN Get(b, "reasoning") = EffortOf(a["reasoning"])
       ELSE IF Has(a, "reasoning_effort")
       THEN Get(b, "reasoning") = O([effort |-> a["reasoning_effort"]])
       ELSE ~Has(b, "reasoning")

\* The full server was given a reasoning object with a summary key next to
\* reasoning_effort = low, and sent reasoning {effort: "high"}.
C26_Witness ==
  \E k \in DOMAIN sent :
    /\ variant = "full"
    /\ args[sent[k].by] =
         Obj([input |-> S("Summarize X"), reasoning_effort |-> S("low"),
              reasoning |-> O([effort |-> S("high"), summary |-> S("auto")])])
    /\ sent[k].body["reasoning"] = O([effort |-> S("high")])

\* What the claim makes of one tools entry: a string in a spelling of web
\* search becomes the web_search_preview object, another string s becomes
\* {type: s}, an object tagged web_search is retagged web_search_preview
\* with its other keys kept, and any other object stays as it is.
NormalizedEntry(x) ==
  IF IsStr(x)
  THEN IF TrimLower(x.s) \in {"web_search", "web_search_preview"}
       THEN O([type |-> S("web_search_preview")])
       ELSE O([type |-> x])
  ELSE IF IsObj(x) /\ Get(x.o, "type") = S("web_search")
  THEN O([k \in DOMAIN x.o |-> IF k = "type" THEN S("web_search_preview") ELSE x.o[k]])
  ELSE x

\* C27 as stated: arguments that provide content and are otherwise
\* accepted, with a tools list of strings and objects and no tools in
\* `extra`, are normalized, and each entry of the canonical tools is the
\* normalized entry of the given one.
C27_NonStandardToolsNormalized ==
  /\ nOut.done /\ IsArr(Get(nArgs, "tools")) /\ ProvidesContent(nArgs)
  /\ Accepted(Without(nArgs, {"tools"})) /\ ~Has(ExtraOf(nArgs), "tools")
  => /\ nOut.ok
     /\ Get(nOut.body, "tools") =
          A([j \in DOMAIN nArgs["tools"].a |-> NormalizedEntry(nArgs["tools"].a[j])])

\* The error an invocation that failed ended with: the one raised while
\* building the body, the rejection of the API call, or the one raised
\* while extracting the text.
OriginalError(i) ==
  IF reply[i].kind = "none" THEN Build(args[i]).err
  ELSE IF reply[i].kind = "error" THEN reply[i].v
  ELSE ExtractText(reply[i].v).err

\* The invocations that failed after their body had been built.
FailedWithBody == {i \in DOMAIN pc : pc[i] = "done" /\ Raised(i) /\ Build(args[i]).ok}

\* C28: every invocation that fails returns the error result of its
\* original error, whose text does not contain the request body; when the
\* body can be built from the arguments, the recomputed body, equal to the
\* body that was sent, is written to the log; when it cannot, nothing is
\* written and the result is still the error result; nothing else is ever
\* written to the log.
C28_FailureLogsBodyOnly ==
  /\ \A i \in DOMAIN pc :
       pc[i] = "done" /\ Raised(i)
         => /\ result[i] = <<ErrorResult(OriginalError(i))>>
            /\ IsErrorResult(result[i][1])
            /\ \A t \in Range(ResultText(result[i][1])) :
                 t.t = "json" => t.a[1] \notin {O(body[i]), O(args[i])}
            /\ Build(args[i]).ok
                 => /\ \E n \in DOMAIN log : log[n] = body[i]
                    /\ \A k \in CallsOf(i) : sent[k].body = body[i]
  /\ Len(log) = Cardinality(FailedWithBody)
  /\ \A n \in DOMAIN log : \E i \in FailedWithBody : log[n] = Build(args[i]).body

\* The API rejected a request carrying response data: the result has the
\* raw details of the error, and the log has the request body.
C28_Witness ==
  \E i \in DOMAIN pc :
    /\ pc[i] = "done" /\ reply[i].kind = "error"
    /\ Truthy(PropOf(PropOf(reply[i].v, "response"), "data"))
    /\ log = <<body[i]>> /\ body[i] # EmptyObj
    /\ \E t \in Range(ResultText(result[i][1])) : t.t = "json"

\* The value the diagnostic reports for k: the property of the error itself
\* when it has one (neither null nor undefined), else the one found in the
\* nested response data.
Reported(err, k) ==
  LET direct == PropOf(err, k)
      nested == IF k = "status" THEN PropOf(PropOf(err, "response"), "status")
                ELSE PropOf(PropOf(PropOf(PropOf(err, "response"), "data"), "error"), k)
  IN IF direct.t \notin {"absent", "null"} THEN direct ELSE nested

\* "(k v)" when a value is reported for k and is not empty or zero.
Part(err, k) ==
  IF Truthy(Reported(err, k)) THEN <<S("(" \o k), Reported(err, k), S(")")>> ELSE <<>>

\* The message of the diagnostic: the error's message, or the stringified
\* fault when it has none.
MessageOf(err) ==
  IF PropOf(err, "message").t \in {"absent", "null"}
  THEN (IF IsString(err) THEN Tokens(err) ELSE StringOf(err).a)
  ELSE Tokens(PropOf(err, "message"))

\* C29: the text of a failed result is "Error:", the message of the error
\* (the stringified fault when it has no message), then "(status s)",
\* "(code c)" and "(param p)" in this order, each present exactly when the
\* value reported for it (the error's own property before the one of the
\* nested response data) is not empty, followed by the "Details:" dump of
\* the response data exactly when the error carries response data.
C29_DiagnosticComposition ==
  \A i \in DOMAIN pc :
    pc[i] = "done" /\ Raised(i)
      => LET err == OriginalError(i)
             data == PropOf(PropOf(err, "response"), "data")
         IN ResultText(result[i][1]) =
              <<S("Error:")>> \o MessageOf(err)
                \o Part(err, "status") \o Part(err, "code") \o Part(err, "param")
                \o (IF Truthy(data) THEN <<S("\nDetails:"), Dump(data)>> ELSE <<>>)

\* The API rejected with an error that has a status and a code of its own
\* and a param only in its response data: the text reports the error's own
\* status and code, the nested param, and the details.
C29_Witness ==
  \E i \in DOMAIN pc :
    /\ pc[i] = "done" /\ reply[i].kind = "error"
    /\ ResultText(result[i][1]) =
         <<S("Error:"), S("Rate"), S("limit"), S("(status"), N(429), S(")"),
           S("(code"), S("rate_limit_exceeded"), S(")"),
           S("(param"), S("model"), S(")"), S("\nDetails:"),
           Dump(O([error |-> O([code |-> S("server_error"), param |-> S("model")])]))>>

\* C30: every request the minimal server sends has a model among gpt-5,
\* gpt-5-mini and gpt-5-nano, the given one or gpt-5 when none was given;
\* its tools are [{type: "web_search_preview"}] when web_search was true or
\* omitted and absent when it was false; and it never has reasoning effort
\* minimal together with a web_search_preview tool.
C30_MvpPipelineInvariant ==
  \A k \in DOMAIN sent :
    variant = "mvp"
      => LET a == args[sent[k].by]
             b == sent[k].body
         IN /\ Get(b, "model") \in {S(m) : m \in MvpModels}
            /\ Get(b, "model") = (IF Has(a, "model") THEN a["model"] ELSE S("gpt-5"))
            /\ Get(a, "web_search") \in {Absent, B(TRUE)}
                 <=> Get(b, "tools") = A(<<O([type |-> S("web_search_preview")])>>)
            /\ Get(a, "web_search") = B(FALSE) <=> ~Has(b, "tools")
            /\ ~(PropOf(Get(b, "reasoning"), "effort") = S("minimal") /\ HasWebSearch(b))

\* The minimal server sent a request with effort minimal and no tools, for
\* gpt-5-nano with web search switched off.
C30_Witness ==
  \E k \in DOMAIN sent :
    /\ variant = "mvp"
    /\ args[sent[k].by] = Obj([model |-> S("gpt-5-nano"), input |-> S("Summarize X"),
                               reasoning_effort |-> S("minimal"),
                               web_search |-> B(FALSE)])
    /\ sent[k].body = [model |-> S("gpt-5-nano"), input |-> S("Summarize X"),
                       reasoning |-> O([effort |-> S("minimal")])]
====
